---- MODULE Spec2Model ----
(***************************************************************************)
(* Verification model of the twenty-first cryptographic core:              *)
(*   - the Triton STARK prover/verifier proof-stream protocol              *)
(*     (src/src/shared_math/stark/triton/stark.rs),                        *)
(*   - the archival Merkle mountain range (src/src/shared_math/mmr.rs),    *)
(*   - the MMR accumulator                                                 *)
(*     (src/twenty-first/src/util_types/mmr/mmr_accumulator.rs).           *)
(*                                                                         *)
(* Digests are modelled as terms of a free algebra, written in prefix      *)
(* form as sequences of naturals, so that the hash is collision free:      *)
(* a leaf digest is <<x>> with x >= 1, and the hash of two digests a, b    *)
(* is <<0>> \o a \o b.                                                     *)
(***************************************************************************)
EXTENDS Integers, Sequences, FiniteSets, TLC

VARIABLES
    \* ---- STARK proof stream (stark.rs) ----
    fri_rounds,     \* number of FRI rounds of the Stark object's Fri
    p_pc,           \* position of Stark::prove
    proof_stream,   \* the items enqueued by the prover, in order
    p_seeds,        \* Fiat-Shamir seeds taken by the prover
    v_pc,           \* position of Stark::verify
    v_read,         \* number of items the verifier has dequeued
    v_asked,        \* kinds the verifier asked for, one per dequeue
    v_seeds,        \* Fiat-Shamir seeds taken by the verifier
    v_result,       \* "none" while running, then "ok" or "err"
    from_prove,     \* TRUE while proof_stream is exactly what Stark::prove enqueued
    \* ---- Merkle mountain ranges (mmr.rs, mmr_accumulator.rs) ----
    leafs,          \* the leaf digests appended so far (the data the MMRs commit to)
    digests,        \* ArchivalMmr.digests; Rust index k is TLA+ index k + 1
    mmra,           \* MmrAccumulator: [leaf_count, peaks]
    last,           \* the last MMR operation with its arguments and results
    calls,          \* number of batch calls made on the accumulator
    \* ---- pure functions (index arithmetic, Fri::num_rounds, BFieldElement) ----
    fn_arg,         \* the arguments a function is called with
    fn_ret,         \* the last call: its name and what it returned
    \* ---- Fri::prove and Fri::verify (x_field_fri.rs) ----
    fri,            \* the Fri object and the polynomial whose codeword is proved
    fri_stream,     \* the proof stream: the items Fri::prove enqueued
    fri_prover,     \* locals of Fri::prove and its position
    fri_verifier,   \* locals of Fri::verify, its position and its result
    fri_oracle,     \* the hash as a random oracle: the values drawn so far, by seed
    \* ---- base tables (instruction_table.rs, hash_table.rs) ----
    table,          \* the table object: its kind and its data, a sequence of rows
    table_call      \* the call running on the table or returned from it, with its locals

starkVars == <<fri_rounds, p_pc, proof_stream, p_seeds, v_pc, v_read, v_asked, v_seeds, v_result, from_prove>>
mmrVars == <<leafs, digests, mmra, last, calls>>
pureVars == <<fn_arg, fn_ret>>
friVars == <<fri, fri_stream, fri_prover, fri_verifier, fri_oracle>>
tableVars == <<table, table_call>>
vars == <<fri_rounds, p_pc, proof_stream, p_seeds, v_pc, v_read, v_asked, v_seeds, v_result, from_prove,
          leafs, digests, mmra, last, calls, fn_arg, fn_ret,
          fri, fri_stream, fri_prover, fri_verifier, fri_oracle, table, table_call>>

(***************************************************************************)
(* Bounds of the model.                                                    *)
(***************************************************************************)
MaxRounds == 3      \* FRI rounds range over 1..MaxRounds
NumRoots == 2       \* distinct payloads a committed Merkle root can take
MaxLeafs == 4       \* leaves appended to an MMR
NumVals == 2        \* distinct leaf digests
MaxMut == 2         \* mutations in one batch
MaxApp == 1         \* appended leaves in one verify_batch_update call
MaxCalls == 1       \* batch calls (verify_batch_update, batch_mutate_leaf_and_update_mps) in a run
MaxIndex == 40      \* data indices and node indices range over 0..MaxIndex
MaxArchived == 7    \* leaves appended to an archival MMR that stands alone
MaxLogLen == 20     \* Fri::num_rounds: domain lengths are 2^0 .. 2^MaxLogLen
MaxChecks == 70     \* Fri::num_rounds: colinearity_checks_count ranges over 1..MaxChecks
MaxOther == 3       \* BFieldElement: the right operand is one of 0..MaxOther or MAX
MaxExp == 5         \* BFieldElement: exponents are 0..MaxExp, or among the largest of the type
MaxOrder == 64      \* get_primitive_root_of_unity: n ranges over 0..MaxOrder
FriLogLen == 3      \* Fri: the domain length is 2^FriLogLen
FriMaxChecks == 2   \* Fri: colinearity_checks_count ranges over 1..FriMaxChecks
NumAlphas == 3      \* Fri: a challenge drawn from the hash is one of 0..NumAlphas-1
MaxCoeff == 1       \* Fri: coefficients of the proved polynomial range over 0..MaxCoeff
SampleLogLen == 4   \* Fri::sample_indices: the domain length is 2^0 .. 2^SampleLogLen
SampleMaxChecks == 3 \* Fri::sample_indices: colinearity_checks_count ranges over 1..SampleMaxChecks
MaxRows == 5        \* tables: a table has 0..MaxRows rows before it is padded
MaxIndices == 2     \* Stark::verify: the security level, the number of sampled indices, is 0..MaxIndices
MaxPolys == 3       \* Stark: each kind of polynomial (base, extension, quotient, difference quotient) has 0..MaxPolys members

(***************************************************************************)
(* STARK proof stream: Stark::prove and Stark::verify (stark.rs).          *)
(***************************************************************************)

\* A proof item: its tag and, for Merkle roots, the committed digest.
Item(kind, val) == [kind |-> kind, val |-> val]

\* The straight-line sequence of proof-stream operations of Stark::prove:
\* <<"enq", kind>> is proof_stream.enqueue(&Item::kind(..)),
\* <<"fs", name>>  is proof_stream.prover_fiat_shamir(),
\* <<"fri", "">>   is self.fri.prove(&combination_codeword, &mut proof_stream).
ProverScript ==
    << <<"enq", "MerkleRoot">>,                          \* base_merkle_tree_root
       <<"fs", "challenges">>,
       <<"enq", "MerkleRoot">>,                          \* extension_tree.get_root()
       <<"enq", "Terminals">>,
       <<"fs", "weights">>,
       <<"enq", "MerkleRoot">>,                          \* combination_root
       <<"fs", "indices">>,
       <<"fri", "">>,
       <<"enq", "TransposedBaseElementVectors">>,
       <<"enq", "CompressedAuthenticationPaths">>,
       <<"enq", "TransposedExtensionElementVectors">>,
       <<"enq", "CompressedAuthenticationPaths">>,
       <<"enq", "RevealedCombinationElements">>,
       <<"enq", "CompressedAuthenticationPaths">> >>

\* The sequence of proof-stream operations of Stark::verify:
\* <<"deq", kind>> is proof_stream.dequeue()?.as_kind()?,
\* <<"fs", name>>  is proof_stream.verifier_fiat_shamir(),
\* <<"fri", "">>   is self.fri.verify(proof_stream, &combination_root)?.
VerifierScript ==
    << <<"deq", "MerkleRoot">>,                          \* base_merkle_tree_root
       <<"fs", "challenges">>,
       <<"deq", "MerkleRoot">>,                          \* extension_tree_merkle_root
       <<"deq", "Terminals">>,
       <<"deq", "PaddedHeight">>,                        \* as_max_padded_table_height
       <<"fs", "weights">>,
       <<"deq", "MerkleRoot">>,                          \* combination_root
       <<"fs", "indices">>,
       <<"fri", "">>,
       <<"deq", "TransposedBaseElementVectors">>,
       <<"deq", "CompressedAuthenticationPaths">>,
       <<"deq", "TransposedExtensionElementVectors">>,
       <<"deq", "CompressedAuthenticationPaths">>,
       <<"deq", "RevealedCombinationElements">>,
       <<"deq", "CompressedAuthenticationPaths">> >>

\* The FRI sub-protocol on the stream: the first root, then per round a
\* challenge and a root, the last codeword, the index seed, and per round two
\* openings.  FriOps(r) lists the operations; "item" is an enqueue on the
\* prover and a dequeue on the verifier.
RECURSIVE FriCommitOps(_)
FriCommitOps(r) ==
    IF r = 0 THEN << >>
    ELSE FriCommitOps(r - 1) \o << <<"fs", "alpha">>, <<"item", "MerkleRoot">> >>

RECURSIVE FriQueryOps(_)
FriQueryOps(r) ==
    IF r = 0 THEN << >>
    ELSE FriQueryOps(r - 1) \o << <<"item", "FriAuthPaths">>, <<"item", "FriAuthPaths">> >>

FriOps(r) ==
    << <<"item", "MerkleRoot">> >> \o FriCommitOps(r)
        \o << <<"item", "FriLastCodeword">>, <<"fs", "fri_indices">> >> \o FriQueryOps(r)

\* ProofStream::prover_fiat_shamir: the seed is the hash of everything
\* enqueued so far; with a collision-free sponge, the prefix itself.
prover_fiat_shamir(stream) == stream

\* ProofStream::verifier_fiat_shamir: the hash of the items read so far.
verifier_fiat_shamir(stream, read) == SubSeq(stream, 1, read)

\* Fri::prove on the stream: the items it enqueues and the seeds it takes.
RECURSIVE FriProveRun(_, _, _)
FriProveRun(ops, stream, seeds) ==
    IF ops = << >> THEN [stream |-> stream, seeds |-> seeds]
    ELSE LET op == Head(ops) IN
         IF op[1] = "fs"
         THEN FriProveRun(Tail(ops), stream,
                          Append(seeds, [name |-> op[2], seed |-> prover_fiat_shamir(stream)]))
         ELSE FriProveRun(Tail(ops), Append(stream, Item(op[2], 0)), seeds)

\* Fri::verify on the stream: dequeues until an item has the wrong tag or the
\* stream is exhausted (ok = FALSE), or until all of its operations are done.
RECURSIVE FriVerifyRun(_, _, _, _, _)
FriVerifyRun(ops, stream, read, asked, seeds) ==
    IF ops = << >> THEN [ok |-> TRUE, read |-> read, asked |-> asked, seeds |-> seeds]
    ELSE LET op == Head(ops) IN
         IF op[1] = "fs"
         THEN FriVerifyRun(Tail(ops), stream, read, asked,
                           Append(seeds, [name |-> op[2], seed |-> verifier_fiat_shamir(stream, read)]))
         ELSE IF read < Len(stream) /\ stream[read + 1].kind = op[2]
              THEN FriVerifyRun(Tail(ops), stream, read + 1, Append(asked, op[2]), seeds)
              ELSE [ok |-> FALSE, read |-> read, asked |-> Append(asked, op[2]), seeds |-> seeds]

PStep == ProverScript[p_pc]
VStep == VerifierScript[v_pc]
ProverDone == p_pc = Len(ProverScript) + 1
VerifierIdle == v_pc = 0

mmrUnchanged == UNCHANGED mmrVars /\ UNCHANGED pureVars /\ UNCHANGED friVars /\ UNCHANGED tableVars

\* proof_stream.enqueue(&Item::...) in Stark::prove
ProverEnqueue(val) ==
    /\ ~ProverDone
    /\ PStep[1] = "enq"
    /\ val = 0 <=> PStep[2] # "MerkleRoot"
    /\ proof_stream' = Append(proof_stream, Item(PStep[2], val))
    /\ p_pc' = p_pc + 1
    /\ UNCHANGED <<fri_rounds, p_seeds, v_pc, v_read, v_asked, v_seeds, v_result, from_prove>>
    /\ mmrUnchanged

\* proof_stream.prover_fiat_shamir() in Stark::prove
ProverFiatShamir ==
    /\ ~ProverDone
    /\ PStep[1] = "fs"
    /\ p_seeds' = Append(p_seeds, [name |-> PStep[2], seed |-> prover_fiat_shamir(proof_stream)])
    /\ p_pc' = p_pc + 1
    /\ UNCHANGED <<fri_rounds, proof_stream, v_pc, v_read, v_asked, v_seeds, v_result, from_prove>>
    /\ mmrUnchanged

\* self.fri.prove(&combination_codeword, &mut proof_stream) in Stark::prove
ProverFri ==
    /\ ~ProverDone
    /\ PStep[1] = "fri"
    /\ LET run == FriProveRun(FriOps(fri_rounds), proof_stream, p_seeds) IN
        /\ proof_stream' = run.stream
        /\ p_seeds' = run.seeds
    /\ p_pc' = p_pc + 1
    /\ UNCHANGED <<fri_rounds, v_pc, v_read, v_asked, v_seeds, v_result, from_prove>>
    /\ mmrUnchanged

\* Stark::verify is public and takes any proof stream: besides the stream
\* that prove returned, the verifier may be handed a stream that carries a
\* PaddedHeight item at some position.
InsertAt(s, pos, x) == SubSeq(s, 1, pos - 1) \o <<x>> \o SubSeq(s, pos, Len(s))

ForeignStream(pos) ==
    /\ ProverDone
    /\ VerifierIdle
    /\ from_prove
    /\ pos \in 1..(Len(proof_stream) + 1)
    /\ proof_stream' = InsertAt(proof_stream, pos, Item("PaddedHeight", 0))
    /\ from_prove' = FALSE
    /\ UNCHANGED <<fri_rounds, p_pc, p_seeds, v_pc, v_read, v_asked, v_seeds, v_result>>
    /\ mmrUnchanged

\* Stark::verify is called on the finished stream
VerifierStart ==
    /\ ProverDone
    /\ VerifierIdle
    /\ v_pc' = 1
    /\ UNCHANGED <<fri_rounds, p_pc, proof_stream, p_seeds, v_read, v_asked, v_seeds, v_result, from_prove>>
    /\ mmrUnchanged

VerifierRunning == v_pc \in 1..Len(VerifierScript) /\ v_result = "none"

\* Item::as_kind: the payload when the tag matches, an error otherwise.
as_kind(item, kind) == item.kind = kind

\* proof_stream.dequeue()?.as_kind()? in Stark::verify
VerifierDequeue ==
    /\ VerifierRunning
    /\ VStep[1] = "deq"
    /\ v_asked' = Append(v_asked, VStep[2])
    /\ IF v_read < Len(proof_stream) /\ as_kind(proof_stream[v_read + 1], VStep[2])
       THEN /\ v_read' = v_read + 1
            /\ v_pc' = v_pc + 1
            /\ UNCHANGED v_result
       ELSE /\ v_result' = "err"
            /\ UNCHANGED <<v_read, v_pc>>
    /\ UNCHANGED <<fri_rounds, p_pc, proof_stream, p_seeds, v_seeds, from_prove>>
    /\ mmrUnchanged

\* proof_stream.verifier_fiat_shamir() in Stark::verify
VerifierFiatShamir ==
    /\ VerifierRunning
    /\ VStep[1] = "fs"
    /\ v_seeds' = Append(v_seeds, [name |-> VStep[2], seed |-> verifier_fiat_shamir(proof_stream, v_read)])
    /\ v_pc' = v_pc + 1
    /\ UNCHANGED <<fri_rounds, p_pc, proof_stream, p_seeds, v_read, v_asked, v_result, from_prove>>
    /\ mmrUnchanged

\* self.fri.verify(proof_stream, &combination_root)? in Stark::verify
VerifierFri ==
    /\ VerifierRunning
    /\ VStep[1] = "fri"
    /\ LET run == FriVerifyRun(FriOps(fri_rounds), proof_stream, v_read, v_asked, v_seeds) IN
        /\ v_read' = run.read
        /\ v_asked' = run.asked
        /\ v_seeds' = run.seeds
        /\ IF run.ok THEN v_pc' = v_pc + 1 /\ UNCHANGED v_result
                     ELSE v_result' = "err" /\ UNCHANGED v_pc
    /\ UNCHANGED <<fri_rounds, p_pc, proof_stream, p_seeds, from_prove>>
    /\ mmrUnchanged

\* Ok(true) at the end of Stark::verify
VerifierAccept ==
    /\ v_pc = Len(VerifierScript) + 1
    /\ v_result = "none"
    /\ v_result' = "ok"
    /\ UNCHANGED <<fri_rounds, p_pc, proof_stream, p_seeds, v_pc, v_read, v_asked, v_seeds, from_prove>>
    /\ mmrUnchanged


(***************************************************************************)
(* Digests and the hash.                                                   *)
(***************************************************************************)

RECURSIVE Pow2(_)
Pow2(n) == IF n = 0 THEN 1 ELSE 2 * Pow2(n - 1)

\* Hasher::hash_two / AlgebraicHasher::hash_pair, collision free
hash_two(a, b) == <<0>> \o a \o b

\* u128::to_digest, injective and disjoint from the leaf digests
to_digest(n) == <<0 - (n + 1)>>

\* The leaf digests the model draws its inputs from
LeafDigest(x) == <<x>>
LeafDigests == {LeafDigest(x) : x \in 1..NumVals}
\* A digest that is no leaf of any MMR the model builds
bad_leaf == LeafDigest(NumVals + 1)

\* Option<T>
None == [some |-> FALSE]
Some(v) == [some |-> TRUE, val |-> v]

(***************************************************************************)
(* Node-index arithmetic of mmr.rs.                                        *)
(***************************************************************************)

left_child(node_index, height) == node_index - Pow2(height)

right_child(node_index) == node_index - 1

RECURSIVE leftmost_ancestor_loop(_, _, _)
leftmost_ancestor_loop(node_index, h, ret) ==
    IF ret < node_index
    THEN leftmost_ancestor_loop(node_index, h + 1, Pow2(h + 2) - 1)
    ELSE <<ret, h>>

\* (index, height) of the leftmost ancestor
leftmost_ancestor(node_index) == leftmost_ancestor_loop(node_index, 0, 1)

RECURSIVE right_child_and_height_loop(_, _, _)
right_child_and_height_loop(node_index, node, height) ==
    LET lc == left_child(node, height)
        h == height - 1
    IN  IF node_index = lc THEN <<FALSE, h>>
        ELSE IF node_index < lc THEN right_child_and_height_loop(node_index, lc, h)
        ELSE LET rc == right_child(node) IN
             IF node_index = rc THEN <<TRUE, h>>
             ELSE right_child_and_height_loop(node_index, rc, h)

\* (is_right_child, height)
right_child_and_height(node_index) ==
    LET la == leftmost_ancestor(node_index) IN
    IF la[1] = node_index THEN <<FALSE, la[2]>>
    ELSE right_child_and_height_loop(node_index, la[1], la[2])

parent(node_index) ==
    LET rh == right_child_and_height(node_index) IN
    IF rh[1] THEN node_index + 1 ELSE node_index + Pow2(rh[2] + 1)

left_sibling(node_index, height) == node_index - Pow2(height + 1) + 1

right_sibling(node_index, height) == node_index + Pow2(height + 1) - 1

RECURSIVE log_2_floor(_)
log_2_floor(x) == IF x <= 1 THEN 0 ELSE 1 + log_2_floor(x \div 2)

get_height_from_data_index(data_index) == log_2_floor(data_index + 1)

RECURSIVE non_leaf_nodes_left_loop(_, _)
non_leaf_nodes_left_loop(acc, data_index_acc) ==
    IF data_index_acc > 0
    THEN LET left_data_height == get_height_from_data_index(data_index_acc - 1) IN
         non_leaf_nodes_left_loop(acc + Pow2(left_data_height) - 1,
                                  data_index_acc - Pow2(left_data_height))
    ELSE acc

non_leaf_nodes_left(data_index) ==
    IF data_index = 0 THEN 0 ELSE non_leaf_nodes_left_loop(0, data_index)

data_index_to_node_index(data_index) == data_index + non_leaf_nodes_left(data_index) + 1

\* The descent of node_index_to_data_index with "node_index < left_child" as
\* its test: a leaf that is a left child is sent down the right branch.
RECURSIVE node_index_to_data_index_loop_strict(_, _, _, _)
node_index_to_data_index_loop_strict(node_index, node, height, data_index) ==
    IF height > 0
    THEN LET lc == left_child(node, height) IN
         IF node_index < lc
         THEN node_index_to_data_index_loop_strict(node_index, lc, height - 1, data_index)
         ELSE node_index_to_data_index_loop_strict(node_index, right_child(node), height - 1,
                                                   data_index + Pow2(height - 1))
    ELSE data_index

\* The while loop of node_index_to_data_index: descend from the leftmost
\* ancestor to the leaf, adding 2^height for every step to the right.
RECURSIVE node_index_to_data_index_loop(_, _, _, _)
node_index_to_data_index_loop(node_index, node, height, data_index) ==
    IF height > 0
    THEN LET lc == left_child(node, height) IN
         IF node_index <= lc
         THEN node_index_to_data_index_loop(node_index, lc, height - 1, data_index)
         ELSE node_index_to_data_index_loop(node_index, right_child(node), height - 1,
                                            data_index + Pow2(height - 1))
    ELSE data_index

node_index_to_data_index(node_index) ==
    IF right_child_and_height(node_index)[2] # 0
    THEN None
    ELSE LET la == leftmost_ancestor(node_index) IN
         Some(node_index_to_data_index_loop(node_index, la[1], la[2], 0))

(***************************************************************************)
(* ArchivalMmr of mmr.rs.  d is the digests vector; the Rust element       *)
(* digests[k] is d[k + 1], and digests.len() is Len(d).                    *)
(***************************************************************************)

At(d, k) == d[k + 1]

\* archive_append that pushes the digest and adds no parent
archive_push(d, hash) == Append(d, hash)

RECURSIVE archive_append(_, _)
archive_append(d, hash) ==
    LET node_index == Len(d)
        d1 == Append(d, hash)
        rh == right_child_and_height(node_index)
    IN  IF rh[1]
        THEN archive_append(d1, hash_two(At(d1, left_sibling(node_index, rh[2])), hash))
        ELSE d1

RECURSIVE archive_append_all(_, _)
archive_append_all(d, hashes) ==
    IF hashes = << >> THEN d
    ELSE archive_append_all(archive_append(d, Head(hashes)), Tail(hashes))

\* ArchivalMmr::init(hashes, zero)
ArchivalMmr_init(hashes) == archive_append_all(<<to_digest(0)>>, hashes)

\* The loops 'outer and '_inner of get_peaks_with_heights.  term is FALSE when
\* the outer loop is entered with height > 0 and candidate <= digests.len():
\* the inner loop is then skipped and nothing changes any more.
RECURSIVE get_peaks_loop(_, _, _, _)
get_peaks_loop(d, candidate, height, acc) ==
    IF height = 0 THEN [ph |-> acc, term |-> TRUE]
    ELSE IF candidate > Len(d)
    THEN LET c == left_child(candidate, height)
             h == height - 1
         IN  IF c < Len(d)
             THEN get_peaks_loop(d, right_sibling(c, h), h, Append(acc, <<At(d, c), h>>))
             ELSE get_peaks_loop(d, c, h, acc)
    ELSE [ph |-> acc, term |-> FALSE]

get_peaks_with_heights_run(d) ==
    LET la == leftmost_ancestor(Len(d) - 1)
        over == la[1] > Len(d) - 1
        top_peak == IF over THEN left_child(la[1], la[2]) ELSE la[1]
        top_height == IF over THEN la[2] - 1 ELSE la[2]
    IN  get_peaks_loop(d, right_sibling(top_peak, top_height), top_height,
                       << <<At(d, top_peak), top_height>> >>)

\* list of (peak, height)
get_peaks_with_heights(d) == get_peaks_with_heights_run(d).ph

get_peaks(d) == [i \in 1..Len(get_peaks_with_heights(d)) |-> get_peaks_with_heights(d)[i][1]]

\* count_nodes that counts the dummy digest at index 0 as a node
count_nodes_with_dummy(d) == Len(d)

count_nodes(d) == Len(d) - 1

RECURSIVE SumPow2Heights(_)
SumPow2Heights(ph) ==
    IF ph = << >> THEN 0 ELSE Pow2(Head(ph)[2]) + SumPow2Heights(Tail(ph))

count_leaves(d) == SumPow2Heights(get_peaks_with_heights(d))

RECURSIVE bag_fold(_, _, _)
bag_fold(peaks, i, acc) ==
    IF i >= Len(peaks) THEN acc
    ELSE bag_fold(peaks, i + 1, hash_two(peaks[Len(peaks) - i], acc))

\* root from a list of peaks and the node count
get_root_from_peaks(peaks, node_count) ==
    bag_fold(peaks, 1, hash_two(to_digest(node_count), peaks[Len(peaks)]))

bag_peaks(d) == get_root_from_peaks(get_peaks(d), count_nodes(d))

RECURSIVE top_height_loop(_, _, _)
top_height_loop(d, parent_index, top_height) ==
    IF parent_index < Len(d)
    THEN top_height_loop(d, parent(parent_index), top_height + 1)
    ELSE top_height

RECURSIVE authentication_path_loop(_, _, _, _)
authentication_path_loop(d, index, top_height, path) ==
    LET rh == right_child_and_height(index) IN
    IF rh[2] < top_height
    THEN LET sib == IF rh[1] THEN left_sibling(index, rh[2]) ELSE right_sibling(index, rh[2])
         IN  authentication_path_loop(d, parent(index), top_height, Append(path, At(d, sib)))
    ELSE path

\* (authentication_path, peaks)
prove_membership(d, data_index) ==
    LET node_index == data_index_to_node_index(data_index)
        top_height == top_height_loop(d, node_index, 0 - 1)
    IN  <<authentication_path_loop(d, node_index, top_height, << >>), get_peaks(d)>>

\* A faulty fold: the accumulated hash is always taken as the left operand
RECURSIVE membership_fold_left(_, _, _)
membership_fold_left(path, acc_hash, acc_index) ==
    IF path = << >> THEN acc_hash
    ELSE membership_fold_left(Tail(path), hash_two(acc_hash, Head(path)), parent(acc_index))

RECURSIVE membership_fold(_, _, _)
membership_fold(path, acc_hash, acc_index) ==
    IF path = << >> THEN acc_hash
    ELSE LET acc_right == right_child_and_height(acc_index)[1] IN
         membership_fold(Tail(path),
                         IF acc_right THEN hash_two(Head(path), acc_hash)
                                      ELSE hash_two(acc_hash, Head(path)),
                         parent(acc_index))

verify_membership(root, authentication_path, peaks, node_count, value_hash, data_index) ==
    LET matching_root == root = get_root_from_peaks(peaks, node_count)
        acc_hash == membership_fold(authentication_path, value_hash,
                                    data_index_to_node_index(data_index))
    IN  (\E i \in 1..Len(peaks) : peaks[i] = acc_hash) /\ matching_root

RECURSIVE verify_append_loop(_, _)
verify_append_loop(calculated_peaks, new_node_index) ==
    IF right_child_and_height(new_node_index)[1]
    THEN LET n == Len(calculated_peaks)
             new_hash == calculated_peaks[n]
             previous_peak == calculated_peaks[n - 1]
         IN  verify_append_loop(Append(SubSeq(calculated_peaks, 1, n - 2),
                                       hash_two(previous_peak, new_hash)),
                                new_node_index + 1)
    ELSE <<calculated_peaks, new_node_index>>

\* A faulty verify_append: the old root is not compared
verify_append_no_old_root(old_root, old_peaks, old_leaf_count, new_root, new_leaf_hash, new_peaks) ==
    LET first_new_node_index == data_index_to_node_index(old_leaf_count)
        res == verify_append_loop(Append(old_peaks, new_leaf_hash), first_new_node_index)
    IN  /\ res[1] = new_peaks
        /\ get_root_from_peaks(res[1], res[2]) = new_root

verify_append(old_root, old_peaks, old_leaf_count, new_root, new_leaf_hash, new_peaks) ==
    LET first_new_node_index == data_index_to_node_index(old_leaf_count)
        res == verify_append_loop(Append(old_peaks, new_leaf_hash), first_new_node_index)
        calculated_peaks == res[1]
        calculated_new_root == get_root_from_peaks(calculated_peaks, res[2])
        calculated_old_root == get_root_from_peaks(old_peaks, first_new_node_index - 1)
    IN  /\ calculated_peaks = new_peaks
        /\ calculated_new_root = new_root
        /\ calculated_old_root = old_root

(***************************************************************************)
(* Helpers of the accumulator (util_types::mmr::shared,                    *)
(* mmr_membership_proof, utils), following the index relations and the     *)
(* component design of the MMR.  A membership proof is a record            *)
(* [leaf_index, authentication_path].                                      *)
(***************************************************************************)

MembershipProof(leaf_index, authentication_path) ==
    [leaf_index |-> leaf_index, authentication_path |-> authentication_path]

\* data -> node index: i + (non-leaf nodes inserted before leaf i) + 1
leaf_index_to_node_index(leaf_index) == data_index_to_node_index(leaf_index)

RECURSIVE right_lineage_length(_)
right_lineage_length(node_index) ==
    IF right_child_and_height(node_index)[1] THEN 1 + right_lineage_length(node_index + 1) ELSE 0

\* (number of consecutive right-child steps from the node upward, height)
right_lineage_length_and_own_height(node_index) ==
    <<right_lineage_length(node_index), right_child_and_height(node_index)[2]>>

\* Heights of the mountains of an MMR with leaf_count leaves, left to right:
\* one per set bit of leaf_count, strictly decreasing.
RECURSIVE peak_heights_from(_, _)
peak_heights_from(leaf_count, h) ==
    IF h < 0 THEN << >>
    ELSE IF leaf_count >= Pow2(h)
         THEN <<h>> \o peak_heights_from(leaf_count - Pow2(h), h - 1)
         ELSE peak_heights_from(leaf_count, h - 1)

get_peak_heights(leaf_count) ==
    IF leaf_count = 0 THEN << >> ELSE peak_heights_from(leaf_count, log_2_floor(leaf_count))

\* Node index of the k-th peak: the last node of its mountain.
RECURSIVE peak_node_index(_, _)
peak_node_index(heights, k) ==
    IF k = 0 THEN 0 ELSE peak_node_index(heights, k - 1) + Pow2(heights[k] + 1) - 1

\* Number of leaves in the mountains before the k-th one.
RECURSIVE leafs_before_peak(_, _)
leafs_before_peak(heights, k) ==
    IF k <= 1 THEN 0 ELSE leafs_before_peak(heights, k - 1) + Pow2(heights[k - 1])

\* (Merkle tree index of the leaf in its mountain, index of that mountain in
\* the peaks list); the peak index is 0-based as in the source.
leaf_index_to_mt_index_and_peak_index(leaf_index, leaf_count) ==
    LET heights == get_peak_heights(leaf_count)
        k == CHOOSE j \in 1..Len(heights) :
                /\ leafs_before_peak(heights, j) <= leaf_index
                /\ leaf_index < leafs_before_peak(heights, j) + Pow2(heights[j])
    IN  <<Pow2(heights[k]) + leaf_index - leafs_before_peak(heights, k), k - 1>>

\* Append without the archive: push the leaf as a new peak; while the new
\* node is a right child, pop the last two peaks and push their hash.  The
\* popped siblings are the authentication path of the new leaf.
RECURSIVE new_peaks_from_append_loop(_, _, _)
new_peaks_from_append_loop(peaks, node_index, path) ==
    IF right_lineage_length_and_own_height(node_index)[1] # 0
    THEN LET n == Len(peaks) IN
         IF n < 2 THEN None
         ELSE new_peaks_from_append_loop(
                  Append(SubSeq(peaks, 1, n - 2), hash_two(peaks[n - 1], peaks[n])),
                  node_index + 1, Append(path, peaks[n - 1]))
    ELSE Some(<<peaks, path>>)

\* Option<(new peaks, membership proof of the new leaf)>
calculate_new_peaks_from_append(old_leaf_count, old_peaks, new_leaf) ==
    LET res == new_peaks_from_append_loop(Append(old_peaks, new_leaf),
                                          leaf_index_to_node_index(old_leaf_count), << >>)
    IN  IF res.some
        THEN Some(<<res.val[1], MembershipProof(old_leaf_count, res.val[2])>>)
        ELSE None

\* (mountain root, its node index) recomputed from a leaf and its authentication path
RECURSIVE root_from_path(_, _, _)
root_from_path(path, acc_hash, acc_index) ==
    IF path = << >> THEN <<acc_hash, acc_index>>
    ELSE LET is_right == right_lineage_length_and_own_height(acc_index)[1] # 0 IN
         root_from_path(Tail(path),
                        IF is_right THEN hash_two(Head(path), acc_hash)
                                    ELSE hash_two(acc_hash, Head(path)),
                        parent(acc_index))

\* Option<new peaks>: the mountain root recomputed from (new_leaf, path) replaces
\* the peak of that mountain; None when the path does not end at a peak.
calculate_new_peaks_from_leaf_mutation(old_peaks, new_leaf, leaf_count, membership_proof) ==
    LET top == root_from_path(membership_proof.authentication_path, new_leaf,
                              leaf_index_to_node_index(membership_proof.leaf_index))
        heights == get_peak_heights(leaf_count)
        hit == {k \in 1..Len(heights) : peak_node_index(heights, k) = top[2] /\ k <= Len(old_peaks)}
    IN  IF hit = {} THEN None
        ELSE LET k == CHOOSE j \in hit : TRUE IN
             Some([old_peaks EXCEPT ![k] = top[1]])

\* Node indices of the digests of the authentication path
RECURSIVE node_indices_loop(_, _)
node_indices_loop(node_index, n) ==
    IF n = 0 THEN << >>
    ELSE LET rh == right_lineage_length_and_own_height(node_index)
             sib == IF rh[1] # 0 THEN left_sibling(node_index, rh[2])
                                 ELSE right_sibling(node_index, rh[2])
         IN  <<sib>> \o node_indices_loop(parent(node_index), n - 1)

get_node_indices(mp) ==
    node_indices_loop(leaf_index_to_node_index(mp.leaf_index), Len(mp.authentication_path))

\* The digests a leaf mutation gives to the leaf and to the nodes above it:
\* a map node index -> digest, as a function.
RECURSIVE deducible_hashes(_, _, _, _)
deducible_hashes(path, acc_hash, acc_index, m) ==
    LET m1 == [x \in DOMAIN m \cup {acc_index} |-> IF x = acc_index THEN acc_hash ELSE m[x]] IN
    IF path = << >> THEN m1
    ELSE LET is_right == right_lineage_length_and_own_height(acc_index)[1] # 0 IN
         deducible_hashes(Tail(path),
                          IF is_right THEN hash_two(Head(path), acc_hash)
                                      ELSE hash_two(acc_hash, Head(path)),
                          parent(acc_index), m1)

\* A proof with every path digest whose node index is in the map replaced
replace_path_digests(mp, m) ==
    LET idx == get_node_indices(mp) IN
    [mp EXCEPT !.authentication_path =
        [j \in 1..Len(mp.authentication_path) |->
            IF idx[j] \in DOMAIN m THEN m[idx[j]] ELSE mp.authentication_path[j]]]

\* MmrMembershipProof::batch_update_from_leaf_mutation: the proofs as they are
\* after the leaf of membership_proof has taken the value new_leaf
batch_update_from_leaf_mutation(mps, membership_proof, new_leaf) ==
    LET m == deducible_hashes(membership_proof.authentication_path, new_leaf,
                              leaf_index_to_node_index(membership_proof.leaf_index), << >>)
    IN  [j \in 1..Len(mps) |-> replace_path_digests(mps[j], m)]

\* MmrMembershipProof::verify(peaks, leaf, leaf_count): the path has the height
\* of the leaf's mountain and leads from the leaf to that mountain's peak
mp_verify(mp, peaks, leaf, leaf_count) ==
    /\ mp.leaf_index < leaf_count
    /\ LET heights == get_peak_heights(leaf_count)
           pk == leaf_index_to_mt_index_and_peak_index(mp.leaf_index, leaf_count)[2] + 1
       IN  /\ Len(mp.authentication_path) = heights[pk]
           /\ pk <= Len(peaks)
           /\ peaks[pk] = root_from_path(mp.authentication_path, leaf,
                                         leaf_index_to_node_index(mp.leaf_index))[1]

has_unique_elements(xs) == \A i, j \in 1..Len(xs) : i # j => xs[i] # xs[j]

RECURSIVE SeqMax(_)
SeqMax(xs) ==
    IF Len(xs) = 1 THEN xs[1]
    ELSE LET m == SeqMax(Tail(xs)) IN IF xs[1] > m THEN xs[1] ELSE m

(***************************************************************************)
(* MmrAccumulator of mmr_accumulator.rs: a record [leaf_count, peaks].     *)
(***************************************************************************)

Accumulator(leaf_count, peaks) == [leaf_count |-> leaf_count, peaks |-> peaks]

\* impl From<ArchivalMmr> for MmrAccumulator
from_archival(d) == Accumulator(count_leaves(d), get_peaks(d))

\* A faulty append: leaf_count is not incremented
mmra_append_same_count(acc, new_leaf) ==
    LET res == calculate_new_peaks_from_append(acc.leaf_count, acc.peaks, new_leaf).val IN
    [acc |-> Accumulator(acc.leaf_count, res[1]), mp |-> res[2]]

\* Mmr::append: the accumulator after the append and the returned proof
mmra_append(acc, new_leaf) ==
    LET res == calculate_new_peaks_from_append(acc.leaf_count, acc.peaks, new_leaf).val IN
    [acc |-> Accumulator(acc.leaf_count + 1, res[1]), mp |-> res[2]]

RECURSIVE mmra_append_all(_, _)
mmra_append_all(acc, ds) ==
    IF ds = << >> THEN acc ELSE mmra_append_all(mmra_append(acc, Head(ds)).acc, Tail(ds))

\* MmrAccumulator::new(digests)
MmrAccumulator_new(ds) == mmra_append_all(Accumulator(0, << >>), ds)

\* Mmr::mutate_leaf
mutate_leaf(acc, old_membership_proof, new_leaf) ==
    Accumulator(acc.leaf_count,
                calculate_new_peaks_from_leaf_mutation(acc.peaks, new_leaf, acc.leaf_count,
                                                       old_membership_proof).val)

\* A faulty mutation loop: the remaining membership proofs are not updated
RECURSIVE apply_leaf_mutations_stale_proofs(_, _, _, _)
apply_leaf_mutations_stale_proofs(running_peaks, leaf_count, target_values, membership_proofs) ==
    IF membership_proofs = << >> THEN Some(running_peaks)
    ELSE LET running_peaks_res == calculate_new_peaks_from_leaf_mutation(
                                      running_peaks, Head(target_values), leaf_count,
                                      Head(membership_proofs))
         IN  IF ~running_peaks_res.some THEN None
             ELSE apply_leaf_mutations_stale_proofs(running_peaks_res.val, leaf_count,
                                                    Tail(target_values), Tail(membership_proofs))

\* "First we apply all the leaf mutations": values and proofs are consumed in
\* input order; after each mutation the remaining proofs are updated.
RECURSIVE apply_leaf_mutations(_, _, _, _)
apply_leaf_mutations(running_peaks, leaf_count, target_values, membership_proofs) ==
    IF membership_proofs = << >> THEN Some(running_peaks)
    ELSE LET membership_proof == Head(membership_proofs)
             new_leaf_value == Head(target_values)
             running_peaks_res == calculate_new_peaks_from_leaf_mutation(
                                      running_peaks, new_leaf_value, leaf_count, membership_proof)
         IN  IF ~running_peaks_res.some THEN None
             ELSE apply_leaf_mutations(
                      running_peaks_res.val, leaf_count, Tail(target_values),
                      batch_update_from_leaf_mutation(Tail(membership_proofs),
                                                      membership_proof, new_leaf_value))

\* "Then apply all the leaf appends", in input order
RECURSIVE apply_leaf_appends(_, _, _)
apply_leaf_appends(running_peaks, running_leaf_count, new_leafs) ==
    IF new_leafs = << >> THEN Some(running_peaks)
    ELSE LET append_res == calculate_new_peaks_from_append(running_leaf_count, running_peaks,
                                                           Head(new_leafs))
         IN  IF ~append_res.some THEN None
             ELSE apply_leaf_appends(append_res.val[1], running_leaf_count + 1, Tail(new_leafs))

\* Faulty early returns: the uniqueness of the leaf indices is not checked
mutations_rejected_bounds_only(acc, manipulated_leaf_indices) ==
    \/ (acc.leaf_count = 0 /\ manipulated_leaf_indices # << >>)
    \/ (manipulated_leaf_indices # << >> /\ SeqMax(manipulated_leaf_indices) >= acc.leaf_count)

\* The two early returns of verify_batch_update: duplicate leaf indices, and
\* leaf indices that are out of bounds.
mutations_rejected(acc, manipulated_leaf_indices) ==
    \/ ~has_unique_elements(manipulated_leaf_indices)
    \/ (acc.leaf_count = 0 /\ manipulated_leaf_indices # << >>)
    \/ (manipulated_leaf_indices # << >> /\ SeqMax(manipulated_leaf_indices) >= acc.leaf_count)

\* A faulty verify_batch_update: only the number of peaks is compared
verify_batch_update_peak_count(acc, new_peaks, appended_leafs, leaf_mutations) ==
    LET manipulated_leaf_indices == [j \in 1..Len(leaf_mutations) |-> leaf_mutations[j][2].leaf_index]
    IN  IF mutations_rejected(acc, manipulated_leaf_indices) THEN FALSE
        ELSE LET mutated == apply_leaf_mutations(
                                acc.peaks, acc.leaf_count,
                                [j \in 1..Len(leaf_mutations) |-> leaf_mutations[j][1]],
                                [j \in 1..Len(leaf_mutations) |-> leaf_mutations[j][2]])
             IN  IF ~mutated.some THEN FALSE
                 ELSE LET appended == apply_leaf_appends(mutated.val, acc.leaf_count, appended_leafs)
                      IN  IF ~appended.some THEN FALSE
                          ELSE Len(appended.val) = Len(new_peaks)

\* Mmr::verify_batch_update(new_peaks, appended_leafs, leaf_mutations);
\* a leaf mutation is a pair <<new leaf digest, membership proof>>.
verify_batch_update(acc, new_peaks, appended_leafs, leaf_mutations) ==
    LET manipulated_leaf_indices == [j \in 1..Len(leaf_mutations) |-> leaf_mutations[j][2].leaf_index]
    IN  IF mutations_rejected(acc, manipulated_leaf_indices) THEN FALSE
        ELSE LET mutated == apply_leaf_mutations(
                                acc.peaks, acc.leaf_count,
                                [j \in 1..Len(leaf_mutations) |-> leaf_mutations[j][1]],
                                [j \in 1..Len(leaf_mutations) |-> leaf_mutations[j][2]])
             IN  IF ~mutated.some THEN FALSE
                 ELSE LET appended == apply_leaf_appends(mutated.val, acc.leaf_count, appended_leafs)
                      IN  IF ~appended.some THEN FALSE
                          ELSE appended.val = new_peaks

\* verify_batch_update with running_peaks being self.peaks itself, not a
\* clone of it: the mutations are applied to the accumulator
verify_batch_update_in_place(acc, new_peaks, appended_leafs, leaf_mutations) ==
    LET manipulated_leaf_indices == [j \in 1..Len(leaf_mutations) |-> leaf_mutations[j][2].leaf_index]
        mutated == apply_leaf_mutations(
                       acc.peaks, acc.leaf_count,
                       [j \in 1..Len(leaf_mutations) |-> leaf_mutations[j][1]],
                       [j \in 1..Len(leaf_mutations) |-> leaf_mutations[j][2]])
    IN  [result |-> verify_batch_update(acc, new_peaks, appended_leafs, leaf_mutations),
         self |-> IF mutations_rejected(acc, manipulated_leaf_indices) \/ ~mutated.some
                  THEN acc
                  ELSE Accumulator(acc.leaf_count, mutated.val)]

\* verify_batch_update as a method of &mut self: what it returns and the
\* accumulator after the call.  running_peaks is a clone of self.peaks and
\* running_leaf_count a copy of self.leaf_count; no statement assigns to self.
verify_batch_update_on_self(acc, new_peaks, appended_leafs, leaf_mutations) ==
    [result |-> verify_batch_update(acc, new_peaks, appended_leafs, leaf_mutations),
     self |-> acc]

\* HashMap::insert
MapInsert(m, k, v) == [x \in DOMAIN m \cup {k} |-> IF x = k THEN v ELSE m[x]]

\* A faulty path loop: the sibling is always taken from the authentication
\* path, never from new_ap_digests
RECURSIVE derive_path_digests_own_path(_, _, _, _, _)
derive_path_digests_own_path(authentication_path, count, node_index, acc_hash, new_ap_digests) ==
    IF count >= Len(authentication_path) THEN <<acc_hash, new_ap_digests>>
    ELSE LET hash == authentication_path[count + 1]
             rh == right_lineage_length_and_own_height(node_index)
             is_right_child == rh[1] # 0
             acc1 == IF is_right_child THEN hash_two(hash, acc_hash)
                                       ELSE hash_two(acc_hash, hash)
             node1 == IF is_right_child THEN node_index + 1 ELSE node_index + Pow2(rh[2] + 1)
             map1 == IF count < Len(authentication_path) - 1
                     THEN MapInsert(new_ap_digests, node1, acc1) ELSE new_ap_digests
         IN  derive_path_digests_own_path(authentication_path, count + 1, node1, acc1, map1)

\* The loop over ap.authentication_path in batch_mutate_leaf_and_update_mps:
\* hashes upward from the mutated leaf, taking a sibling from new_ap_digests
\* when an earlier mutation has already computed it, and records every node
\* below the peak.  Returns <<acc_hash, new_ap_digests>>.
RECURSIVE derive_path_digests(_, _, _, _, _)
derive_path_digests(authentication_path, count, node_index, acc_hash, new_ap_digests) ==
    IF count >= Len(authentication_path) THEN <<acc_hash, new_ap_digests>>
    ELSE LET hash == authentication_path[count + 1]
             rh == right_lineage_length_and_own_height(node_index)
             is_right_child == rh[1] # 0
             sibling_index == IF is_right_child THEN left_sibling(node_index, rh[2])
                                                ELSE right_sibling(node_index, rh[2])
             sibling_hash == IF sibling_index \in DOMAIN new_ap_digests
                             THEN new_ap_digests[sibling_index] ELSE hash
             acc1 == IF is_right_child THEN hash_two(sibling_hash, acc_hash)
                                       ELSE hash_two(acc_hash, sibling_hash)
             node1 == IF is_right_child THEN node_index + 1 ELSE node_index + Pow2(rh[2] + 1)
             map1 == IF count < Len(authentication_path) - 1
                     THEN MapInsert(new_ap_digests, node1, acc1) ELSE new_ap_digests
         IN  derive_path_digests(authentication_path, count + 1, node1, acc1, map1)

\* A faulty mutation loop: every mutation is hashed upward with the digests of
\* its own authentication path only, as if new_ap_digests were empty
RECURSIVE apply_mutation_data_each_alone(_, _, _, _)
apply_mutation_data_each_alone(peaks, leaf_count, mutation_data, new_ap_digests) ==
    IF mutation_data = << >> THEN [ok |-> TRUE, peaks |-> peaks, map |-> new_ap_digests]
    ELSE LET n == Len(mutation_data)
             ap == mutation_data[n][1]
             new_leaf == mutation_data[n][2]
             node_index == leaf_index_to_node_index(ap.leaf_index)
         IN  IF node_index \in DOMAIN new_ap_digests
             THEN [ok |-> FALSE, peaks |-> peaks, map |-> new_ap_digests]
             ELSE LET res == derive_path_digests(ap.authentication_path, 0, node_index, new_leaf,
                                                 node_index :> new_leaf)
                      peak_index == leaf_index_to_mt_index_and_peak_index(ap.leaf_index, leaf_count)[2]
                  IN  apply_mutation_data_each_alone(
                          [peaks EXCEPT ![peak_index + 1] = res[1]], leaf_count,
                          SubSeq(mutation_data, 1, n - 1), res[2] @@ new_ap_digests)

\* The loop "while let Some((ap, new_leaf)) = mutation_data.pop()": the
\* mutations are taken from the back.  ok is FALSE when the assertion on
\* duplicated leaf indices fails.
RECURSIVE apply_mutation_data(_, _, _, _)
apply_mutation_data(peaks, leaf_count, mutation_data, new_ap_digests) ==
    IF mutation_data = << >> THEN [ok |-> TRUE, peaks |-> peaks, map |-> new_ap_digests]
    ELSE LET n == Len(mutation_data)
             ap == mutation_data[n][1]
             new_leaf == mutation_data[n][2]
             node_index == leaf_index_to_node_index(ap.leaf_index)
         IN  IF node_index \in DOMAIN new_ap_digests
             THEN [ok |-> FALSE, peaks |-> peaks, map |-> new_ap_digests]
             ELSE LET res == derive_path_digests(ap.authentication_path, 0, node_index, new_leaf,
                                                 MapInsert(new_ap_digests, node_index, new_leaf))
                      peak_index == leaf_index_to_mt_index_and_peak_index(ap.leaf_index, leaf_count)[2]
                  IN  apply_mutation_data([peaks EXCEPT ![peak_index + 1] = res[1]], leaf_count,
                                          SubSeq(mutation_data, 1, n - 1), res[2])

\* A faulty proof update: it stops after the first replaced digest
update_membership_proof_first_only(membership_proof, new_ap_digests) ==
    LET ap_indices == get_node_indices(membership_proof)
        path == membership_proof.authentication_path
        changed(j) == /\ ap_indices[j] \in DOMAIN new_ap_digests
                      /\ path[j] # new_ap_digests[ap_indices[j]]
        first(j) == changed(j) /\ \A k \in 1..(j - 1) : ~changed(k)
    IN  <<[j \in 1..Len(path) |-> IF first(j) THEN new_ap_digests[ap_indices[j]] ELSE path[j]],
          Cardinality({j \in 1..Len(path) : first(j)})>>

\* "Update all the supplied membership proofs": one proof, digest by digest.
\* Returns <<updated path, number of digests replaced>>.
update_membership_proof(membership_proof, new_ap_digests) ==
    LET ap_indices == get_node_indices(membership_proof)
        path == membership_proof.authentication_path
        changed(j) == /\ ap_indices[j] \in DOMAIN new_ap_digests
                      /\ path[j] # new_ap_digests[ap_indices[j]]
    IN  <<[j \in 1..Len(path) |-> IF changed(j) THEN new_ap_digests[ap_indices[j]] ELSE path[j]],
          Cardinality({j \in 1..Len(path) : changed(j)})>>

\* i pushed once per replaced digest of proof i (i is 0-based as in the source)
RECURSIVE modified_indices_pushed(_, _)
modified_indices_pushed(counts, i) ==
    IF i > Len(counts) THEN << >>
    ELSE [j \in 1..counts[i] |-> i - 1] \o modified_indices_pushed(counts, i + 1)

\* A faulty dedup: nothing is removed
dedup_none(xs) == xs

\* Vec::dedup: removes consecutive repeated elements
RECURSIVE dedup(_)
dedup(xs) ==
    IF Len(xs) <= 1 THEN xs
    ELSE IF xs[1] = xs[2] THEN dedup(Tail(xs)) ELSE <<xs[1]>> \o dedup(Tail(xs))

\* Mmr::batch_mutate_leaf_and_update_mps(membership_proofs, mutation_data);
\* a mutation is a pair <<membership proof, new leaf digest>>.  Returns the
\* accumulator and the proofs after the call and the returned index list.
batch_mutate_leaf_and_update_mps(acc, membership_proofs, mutation_data) ==
    LET run == apply_mutation_data(acc.peaks, acc.leaf_count, mutation_data, << >>)
        upd == [i \in 1..Len(membership_proofs) |->
                    update_membership_proof(membership_proofs[i], run.map)]
    IN  [ok |-> run.ok,
         acc |-> Accumulator(acc.leaf_count, run.peaks),
         membership_proofs |->
            [i \in 1..Len(membership_proofs) |->
                [membership_proofs[i] EXCEPT !.authentication_path = upd[i][1]]],
         modified |-> dedup(modified_indices_pushed([i \in 1..Len(membership_proofs) |-> upd[i][2]], 1))]

(***************************************************************************)
(* The MMR state machine: an archival MMR and an accumulator over the same *)
(* leaves, and the operations called on them.                              *)
(***************************************************************************)

starkUnchanged == UNCHANGED starkVars /\ UNCHANGED pureVars /\ UNCHANGED friVars /\ UNCHANGED tableVars

\* Number of nodes of an MMR with leaf_count leaves
node_count_of(leaf_count) ==
    LET heights == get_peak_heights(leaf_count) IN peak_node_index(heights, Len(heights))

\* Mmr::bag_peaks of the accumulator: the bagging rule applied to its peaks
mmra_bag_peaks(acc) == get_root_from_peaks(acc.peaks, node_count_of(acc.leaf_count))

\* The membership proof of leaf i in the archival MMR d
ArchivalProof(d, i) == MembershipProof(i, prove_membership(d, i)[1])

\* Peaks of the MMR built from a leaf list
PeaksOf(ls) == IF ls = << >> THEN << >> ELSE get_peaks(ArchivalMmr_init(ls))

\* Injective sequences over S of length at most n
RECURSIVE InjSeqs(_, _)
InjSeqs(S, n) ==
    IF n = 0 THEN {<< >>}
    ELSE LET shorter == InjSeqs(S, n - 1) IN
         shorter \cup UNION {{Append(r, y) : y \in S \ {r[j] : j \in 1..Len(r)}} :
                              r \in {t \in shorter : Len(t) = n - 1}}

\* The orders a list of mutations can be passed in
Reorderings(ms) ==
    {[i \in 1..Len(ms) |-> ms[f[i]]] : f \in Permutations(1..Len(ms))}

\* The new digest of the j-th mutation and of the j-th appended leaf of a
\* call, drawn from the leaf digests and one further digest by the choice v.
NewVal(v, j) == LeafDigest(((v + j - 2) % (NumVals + 1)) + 1)
AppVal(v, j) == LeafDigest(((v + j) % (NumVals + 1)) + 1)

\* A digest different from x
OtherThan(x) == IF x = bad_leaf THEN LeafDigest(1) ELSE bad_leaf

\* The leaf list after the mutations <<index, value>> applied in order
RECURSIVE MutatedLeafs(_, _)
MutatedLeafs(ls, ms) ==
    IF ms = << >> THEN ls
    ELSE MutatedLeafs([ls EXCEPT ![Head(ms)[1] + 1] = Head(ms)[2]], Tail(ms))

\* Mmr::mutate_leaf called once per mutation, each time with the leaf's
\* membership proof in the MMR as it is at that moment
RECURSIVE mutate_one_at_a_time(_, _, _)
mutate_one_at_a_time(acc, ls, mutation_data) ==
    IF mutation_data = << >> THEN acc
    ELSE LET i == Head(mutation_data)[1].leaf_index
             new_leaf == Head(mutation_data)[2]
         IN  mutate_one_at_a_time(
                 mutate_leaf(acc, ArchivalProof(ArchivalMmr_init(ls), i), new_leaf),
                 [ls EXCEPT ![i + 1] = new_leaf], Tail(mutation_data))

InitMmr ==
    /\ leafs = << >>
    /\ digests = ArchivalMmr_init(<< >>)
    /\ mmra = MmrAccumulator_new(<< >>)
    /\ last = [op |-> "init"]
    /\ calls = 0

StarkIdle ==
    /\ fri_rounds = 1
    /\ p_pc = 1
    /\ proof_stream = << >>
    /\ p_seeds = << >>
    /\ v_pc = 0
    /\ v_read = 0
    /\ v_asked = << >>
    /\ v_seeds = << >>
    /\ v_result = "none"
    /\ from_prove = TRUE

\* archive_append on the archival MMR and Mmr::append on the accumulator
AppendLeaf(x) ==
    /\ Len(leafs) < MaxLeafs
    /\ leafs' = Append(leafs, x)
    /\ digests' = archive_append(digests, x)
    /\ mmra' = mmra_append(mmra, x).acc
    /\ last' = [op |-> "append", mp |-> mmra_append(mmra, x).mp]
    /\ UNCHANGED calls
    /\ starkUnchanged

\* MmrAccumulator::from(&mut archival_mmr)
Convert ==
    /\ Len(leafs) >= 1
    /\ last' = [op |-> "convert", acc |-> from_archival(digests)]
    /\ UNCHANGED <<leafs, digests, mmra, calls>>
    /\ starkUnchanged

\* prove_membership(i) followed by verify_membership on its result
Membership(i) ==
    /\ i \in 0..(Len(leafs) - 1)
    /\ LET pm == prove_membership(digests, i) IN
       last' = [op |-> "membership", data_index |-> i, authentication_path |-> pm[1],
                result |-> verify_membership(bag_peaks(digests), pm[1], pm[2],
                                             count_nodes(digests), leafs[i + 1], i)]
    /\ UNCHANGED <<leafs, digests, mmra, calls>>
    /\ starkUnchanged

\* verify_append on the MMR before and after archive_append(x); tamper names
\* the argument that is replaced by a different value, if any.
VerifyAppend(x, tamper) ==
    /\ Len(leafs) >= 1
    /\ LET d1 == archive_append(digests, x)
           old_root == bag_peaks(digests)
           old_peaks == get_peaks(digests)
           new_root == bag_peaks(d1)
           new_peaks == get_peaks(d1)
       IN  last' = [op |-> "verify_append", tamper |-> tamper,
                    merged |-> Len(new_peaks) <= Len(old_peaks),
                    result |-> verify_append(
                        IF tamper = "old_root" THEN new_root ELSE old_root,
                        old_peaks, count_leaves(digests),
                        IF tamper = "new_root" THEN old_root ELSE new_root,
                        x,
                        IF tamper = "new_peaks" THEN [new_peaks EXCEPT ![1] = OtherThan(new_peaks[1])]
                        ELSE IF tamper = "new_peaks_old" THEN old_peaks
                        ELSE new_peaks)]
    /\ UNCHANGED <<leafs, digests, mmra, calls>>
    /\ starkUnchanged

NextMmr ==
    \/ \E x \in LeafDigests : AppendLeaf(x)
    \/ Convert
    \/ \E i \in 0..(MaxLeafs - 1) : Membership(i)
    \/ \E x \in LeafDigests, tamper \in {"none", "old_root", "new_root", "new_peaks", "new_peaks_old"} :
          VerifyAppend(x, tamper)

\* The honest mutations of a call: the j-th one gives leaf idxs[j] the value
\* NewVal(v, j), with the leaf's membership proof in the current MMR.
HonestMutations(idxs, v) ==
    [j \in 1..Len(idxs) |-> <<NewVal(v, j), ArchivalProof(digests, idxs[j])>>]

HonestAppends(v, napp) == [j \in 1..napp |-> AppVal(v, j)]

\* <<index, value>> of each leaf mutation
IndexValues(muts) == [j \in 1..Len(muts) |-> <<muts[j][2].leaf_index, muts[j][1]>>]

\* A leaf list of the same length as leafs that differs from it in leaf q, or
\* in every leaf when q = Len(leafs)
DifferentLeafs(q) ==
    [i \in 1..Len(leafs) |-> IF q = Len(leafs) \/ q = i - 1 THEN OtherThan(leafs[i]) ELSE leafs[i]]

\* Mmr::verify_batch_update on the accumulator, called twice with the same
\* arguments, as verify_batch_update_pbt calls it again and again on one
\* accumulator, and then, when reorder is set, with leaf_mutations in every
\* other order (reordered is the set of the results).  new_peaks are the peaks of the
\* MMR built from the leaves with the honest mutations applied and the honest
\* appends pushed; tamper names what is then changed in the arguments:
\*   dup         the mutation at pos is repeated at the end, with another value
\*   oob         a mutation of leaf Len(leafs) + q is inserted at pos
\*   bad_append  the appended leaf at pos is replaced by a different digest
\*   bad_value   the new value of the mutation at pos is replaced
\*   bad_proof   the proof of the mutation at pos is replaced by the proof of
\*               the same index in the MMR built from DifferentLeafs(q)
VerifyBatchUpdateCalls(idxs, v, napp, tamper, pos, q, reorder) ==
    /\ calls < MaxCalls
    /\ tamper = "none" => pos = 1 /\ q = 0
    /\ tamper = "dup" => pos \in 1..Len(idxs) /\ q = 0
    /\ tamper = "oob" => pos \in 1..(Len(idxs) + 1) /\ q \in 0..1
    /\ tamper = "bad_append" => pos \in 1..napp /\ q = 0
    /\ tamper = "bad_value" => pos \in 1..Len(idxs) /\ q = 0
    /\ tamper = "bad_proof" => pos \in 1..Len(idxs) /\ q \in 0..Len(leafs)
    /\ LET hm == HonestMutations(idxs, v)
           ha == HonestAppends(v, napp)
           extra == NewVal(v, Len(idxs) + 1)
           muts == CASE tamper = "dup" -> Append(hm, <<extra, hm[pos][2]>>)
                     [] tamper = "oob" ->
                            InsertAt(hm, pos, <<extra, MembershipProof(Len(leafs) + q, << >>)>>)
                     [] tamper = "bad_value" -> [hm EXCEPT ![pos][1] = OtherThan(hm[pos][1])]
                     [] tamper = "bad_proof" ->
                            [hm EXCEPT ![pos][2] =
                                ArchivalProof(ArchivalMmr_init(DifferentLeafs(q)), idxs[pos])]
                     [] OTHER -> hm
           apps == IF tamper = "bad_append" THEN [ha EXCEPT ![pos] = OtherThan(ha[pos])] ELSE ha
           claimed == CASE tamper = "dup" -> MutatedLeafs(leafs, IndexValues(muts)) \o ha
                        [] tamper = "oob" ->
                            LET ls == MutatedLeafs(leafs, IndexValues(hm)) \o ha IN
                            IF Len(leafs) + q < Len(ls)
                            THEN [ls EXCEPT ![Len(leafs) + q + 1] = extra] ELSE ls
                        [] OTHER -> MutatedLeafs(leafs, IndexValues(hm)) \o ha
           new_peaks == PeaksOf(claimed)
       IN  \E call \in {verify_batch_update_on_self(mmra, new_peaks, apps, muts)} :
           \E again \in {verify_batch_update_on_self(call.self, new_peaks, apps, muts)} :
               /\ last' = [op |-> "verify_batch_update", tamper |-> tamper, pos |-> pos,
                           leaf_mutations |-> muts, honest |-> hm, appended_leafs |-> apps,
                           result |-> call.result,
                           before |-> mmra, after_first |-> call.self, again |-> again.result,
                           reordered |->
                               IF reorder
                               THEN {verify_batch_update(mmra, new_peaks, apps, ms) :
                                        ms \in Reorderings(muts) \ {muts}}
                               ELSE {}]
               /\ mmra' = again.self
    /\ calls' = calls + 1
    /\ UNCHANGED <<leafs, digests>>
    /\ starkUnchanged

VerifyBatchUpdate(idxs, v, napp, tamper, pos, q) ==
    VerifyBatchUpdateCalls(idxs, v, napp, tamper, pos, q, FALSE)

VerifyBatchUpdateReordered(idxs, v, napp, tamper, pos, q) ==
    VerifyBatchUpdateCalls(idxs, v, napp, tamper, pos, q, TRUE)

\* Mmr::batch_mutate_leaf_and_update_mps on the accumulator, with the proofs
\* of all leaves as membership_proofs; with reorder, reordered is what the
\* call returns and leaves behind with mutation_data in every other order.
\* The archival MMR is rebuilt over the mutated leaves.
BatchMutateCalls(idxs, v, reorder) ==
    /\ calls < MaxCalls
    /\ Len(leafs) >= 1
    /\ \E mutation_data \in {[j \in 1..Len(idxs) |->
                                 <<ArchivalProof(digests, idxs[j]), NewVal(v, j)>>]},
          mps \in {[i \in 1..Len(leafs) |-> ArchivalProof(digests, i - 1)]} :
          \E res \in {batch_mutate_leaf_and_update_mps(mmra, mps, mutation_data)},
             ls \in {MutatedLeafs(leafs, [j \in 1..Len(idxs) |-> <<idxs[j], NewVal(v, j)>>])} :
              /\ res.ok
              /\ mmra' = res.acc
              /\ leafs' = ls
              /\ digests' = ArchivalMmr_init(ls)
              /\ last' = [op |-> "batch_mutate", before |-> mmra, leafs_before |-> leafs,
                          mutation_data |-> mutation_data, proofs_before |-> mps,
                          membership_proofs |-> res.membership_proofs,
                          modified |-> res.modified,
                          reordered |->
                              IF reorder
                              THEN {batch_mutate_leaf_and_update_mps(mmra, mps, ms) :
                                       ms \in Reorderings(mutation_data) \ {mutation_data}}
                              ELSE {}]
    /\ calls' = calls + 1
    /\ starkUnchanged

BatchMutate(idxs, v) == BatchMutateCalls(idxs, v, FALSE)

BatchMutateReordered(idxs, v) == BatchMutateCalls(idxs, v, TRUE)

\* The ways the arguments of a call with n mutations and napp appends are
\* changed: <<tamper, pos, q>>
Tamperings(n, napp) ==
    {<<"none", 1, 0>>}
    \cup {<<"dup", pos, 0>> : pos \in 1..n}
    \cup {<<"oob", pos, q>> : pos \in 1..(n + 1), q \in 0..1}
    \cup {<<"bad_append", pos, 0>> : pos \in 1..napp}
    \cup {<<"bad_value", pos, 0>> : pos \in 1..n}
    \cup {<<"bad_proof", pos, q>> : pos \in 1..n, q \in 0..Len(leafs)}

NextAcc ==
    \/ \E x \in LeafDigests : AppendLeaf(x)
    \/ \E idxs \in InjSeqs(0..(Len(leafs) - 1), MaxMut), v \in 1..NumVals, napp \in 0..MaxApp :
          \E t \in Tamperings(Len(idxs), napp) : VerifyBatchUpdate(idxs, v, napp, t[1], t[2], t[3])

NextBatch ==
    \/ \E x \in LeafDigests : AppendLeaf(x)
    \/ \E idxs \in InjSeqs(0..(Len(leafs) - 1), MaxMut), v \in 1..NumVals : BatchMutate(idxs, v)

\* No pure function has been called
PureIdle ==
    /\ fn_arg = << >>
    /\ fn_ret = [op |-> "none"]

\* No table exists
TableIdle ==
    /\ table = [kind |-> "none"]
    /\ table_call = [op |-> "none"]

\* No Fri object exists
FriIdle ==
    /\ fri = [object |-> "none"]
    /\ fri_stream = << >>
    /\ fri_prover = [pc |-> "none"]
    /\ fri_verifier = [pc |-> "none"]
    /\ fri_oracle = [alpha |-> << >>, indices |-> << >>]

InitStark ==
    /\ PureIdle
    /\ FriIdle
    /\ TableIdle
    /\ fri_rounds \in 1..MaxRounds
    /\ p_pc = 1
    /\ proof_stream = << >>
    /\ p_seeds = << >>
    /\ v_pc = 0
    /\ v_read = 0
    /\ v_asked = << >>
    /\ v_seeds = << >>
    /\ v_result = "none"
    /\ from_prove = TRUE
    /\ InitMmr

NextStark ==
    \/ \E val \in 0..NumRoots : ProverEnqueue(val)
    \/ ProverFiatShamir
    \/ ProverFri
    \/ \E pos \in 1..(Len(proof_stream) + 1) : ForeignStream(pos)
    \/ VerifierStart
    \/ VerifierDequeue
    \/ VerifierFiatShamir
    \/ VerifierFri
    \/ VerifierAccept

SpecStark == InitStark /\ [][NextStark]_vars

InitMmrSpec == InitMmr /\ StarkIdle /\ PureIdle /\ FriIdle /\ TableIdle

SpecMmr == InitMmrSpec /\ [][NextMmr]_vars

SpecAcc == InitMmrSpec /\ [][NextAcc]_vars

SpecBatch == InitMmrSpec /\ [][NextBatch]_vars

\* Batch calls with their mutations passed in every order
\* The tamperings that leave the leaf indices of the mutations distinct and
\* within the accumulator
OrderTamperings(n) ==
    {t \in Tamperings(n, 0) : t[1] \in {"none", "bad_value", "bad_proof"}}

NextOrder ==
    \/ \E x \in LeafDigests : AppendLeaf(x)
    \/ \E idxs \in InjSeqs(0..(Len(leafs) - 1), MaxMut), v \in 1..NumVals, napp \in 0..MaxApp :
          \E t \in OrderTamperings(Len(idxs)) :
              VerifyBatchUpdateReordered(idxs, v, napp, t[1], t[2], t[3])
    \/ \E idxs \in InjSeqs(0..(Len(leafs) - 1), MaxMut), v \in 1..NumVals :
          BatchMutateReordered(idxs, v)

SpecOrder == InitMmrSpec /\ [][NextOrder]_vars

(***************************************************************************)
(* An archival MMR on its own: leaves are appended to it and no            *)
(* accumulator is kept beside it (mmra stays the empty accumulator).       *)
(***************************************************************************)

\* ArchivalMmr::init continued by one more leaf: archive_append(hash)
ArchiveAppend(x) ==
    /\ Len(leafs) < MaxArchived
    /\ leafs' = Append(leafs, x)
    /\ digests' = archive_append(digests, x)
    /\ last' = [op |-> "archive_append"]
    /\ UNCHANGED <<mmra, calls>>
    /\ starkUnchanged

NextArchival == \E x \in LeafDigests : ArchiveAppend(x)

SpecArchival == InitMmrSpec /\ [][NextArchival]_vars

(***************************************************************************)
(* ArchivalMmr::verify_membership called by a party that holds the root,   *)
(* the peaks and the node count of an archival MMR, on a claimed leaf, a   *)
(* claimed data index and an authentication path of any length that        *)
(* prove_membership has produced for some leaf.                            *)
(***************************************************************************)

\* verify_membership(root, path, peaks, node_count, value_hash, data_index),
\* the path being the first digests of the path of leaf i, in any number
VerifyMembership(i, value_hash, data_index) ==
    /\ calls < MaxCalls
    /\ i \in 0..(Len(leafs) - 1)
    /\ data_index \in 0..(Len(leafs) - 1)
    /\ \E pm \in {prove_membership(digests, i)}, root \in {bag_peaks(digests)} :
         \E kept \in 0..Len(pm[1]) :
             last' = [op |-> "verify_membership",
                      authentication_path |-> SubSeq(pm[1], 1, kept),
                      value_hash |-> value_hash, data_index |-> data_index,
                      result |-> verify_membership(root, SubSeq(pm[1], 1, kept),
                                                   pm[2], count_nodes(digests),
                                                   value_hash, data_index)]
    /\ calls' = calls + 1
    /\ UNCHANGED <<leafs, digests, mmra>>
    /\ starkUnchanged

NextMembership ==
    \/ \E x \in LeafDigests : ArchiveAppend(x)
    \/ \E i, data_index \in 0..(MaxArchived - 1), value_hash \in LeafDigests \cup {bad_leaf} :
            VerifyMembership(i, value_hash, data_index)

SpecMembership == InitMmrSpec /\ [][NextMembership]_vars

(***************************************************************************)
(* get_peaks_with_heights run step by step on an archival MMR: one action  *)
(* per test of a loop condition, so that a loop that never ends is a       *)
(* behaviour that never reaches "done".  The locals of the call are kept   *)
(* in last; no leaf is appended while the call runs.                       *)
(***************************************************************************)

\* the archival MMR is not in a call of get_peaks_with_heights
PeaksIdle == IF last.op = "get_peaks_with_heights" THEN last.pc = "done" ELSE TRUE

\* archive_append between two calls
ArchiveAppendBetweenCalls(x) ==
    /\ PeaksIdle
    /\ ArchiveAppend(x)

\* get_peaks_with_heights up to the first test of 'outer
GetPeaksStart ==
    /\ PeaksIdle
    /\ Len(leafs) >= 1
    /\ LET la == leftmost_ancestor(Len(digests) - 1)
           over == la[1] > Len(digests) - 1
           top_peak == IF over THEN left_child(la[1], la[2]) ELSE la[1]
           top_height == IF over THEN la[2] - 1 ELSE la[2]
       IN  last' = [op |-> "get_peaks_with_heights", pc |-> "outer",
                    peaks_and_heights |-> << <<At(digests, top_peak), top_height>> >>,
                    height |-> top_height,
                    candidate |-> right_sibling(top_peak, top_height),
                    entered |-> top_height + 1, lowered |-> TRUE]
    /\ UNCHANGED <<leafs, digests, mmra, calls>>
    /\ starkUnchanged

\* 'outer: while height > 0.  entered is the height the loop was last
\* entered with (one above the top height before the first entry), and
\* lowered tells that every entry so far was at a height below the one before.
GetPeaksOuter ==
    /\ last.op = "get_peaks_with_heights"
    /\ last.pc = "outer"
    /\ last' = IF last.height > 0
               THEN [last EXCEPT !.pc = "inner", !.entered = last.height,
                                 !.lowered = @ /\ last.height < last.entered]
               ELSE [last EXCEPT !.pc = "done"]
    /\ UNCHANGED <<leafs, digests, mmra, calls>>
    /\ starkUnchanged

\* '_inner: while candidate > self.digests.len() && height > 0, and its body
GetPeaksInner ==
    /\ last.op = "get_peaks_with_heights"
    /\ last.pc = "inner"
    /\ last' = IF last.candidate > Len(digests) /\ last.height > 0
               THEN LET candidate == left_child(last.candidate, last.height)
                        height == last.height - 1
                    IN  IF candidate < Len(digests)
                        THEN [last EXCEPT
                                 !.peaks_and_heights = Append(@, <<At(digests, candidate), height>>),
                                 !.candidate = right_sibling(candidate, height),
                                 !.height = height,
                                 !.pc = "outer"]
                        ELSE [last EXCEPT !.candidate = candidate, !.height = height]
               ELSE [last EXCEPT !.pc = "outer"]
    /\ UNCHANGED <<leafs, digests, mmra, calls>>
    /\ starkUnchanged

NextPeaks ==
    \/ \E x \in LeafDigests : ArchiveAppendBetweenCalls(x)
    \/ GetPeaksStart
    \/ GetPeaksOuter
    \/ GetPeaksInner

\* A call that has started goes on: each loop test is taken when it is due
SpecPeaks ==
    /\ InitMmrSpec
    /\ [][NextPeaks]_vars
    /\ WF_vars(GetPeaksOuter)
    /\ WF_vars(GetPeaksInner)

(***************************************************************************)
(* Fri::num_rounds (x_field_fri.rs).  Arithmetic on the unsigned types     *)
(* that leaves the type's range panics in a build with overflow checks and *)
(* wraps in a build without: a call returns Ok(value) or Panic.            *)
(***************************************************************************)

Panic == [panic |-> TRUE]
Ok(v) == [panic |-> FALSE, val |-> v]

U8 == 256

\* other::log_2_ceil: the least k with 2^k >= x
RECURSIVE log_2_ceil_loop(_, _)
log_2_ceil_loop(x, k) == IF Pow2(k) >= x THEN k ELSE log_2_ceil_loop(x, k + 1)

log_2_ceil(x) == log_2_ceil_loop(x, 0)

\* the quotient rounded down
floor_of_quotient(a, b) == a \div b

\* (a as f64 / b as f64).ceil() as u64
ceil_of_quotient(a, b) == (a + b - 1) \div b

\* num_rounds that divides the two usize values, rounding down
num_rounds_floor(domain_length, expansion_factor, colinearity_checks_count, overflow_checks) ==
    LET max_degree == (domain_length \div expansion_factor) - 1
        rounds_count == log_2_ceil(max_degree + 1) % U8
    IN  IF expansion_factor < colinearity_checks_count
        THEN LET num_missed_rounds ==
                     log_2_ceil(colinearity_checks_count \div expansion_factor) % U8
             IN  IF rounds_count < num_missed_rounds
                 THEN IF overflow_checks THEN Panic
                      ELSE Ok(<<rounds_count - num_missed_rounds + U8, Pow2(num_missed_rounds) - 1>>)
                 ELSE Ok(<<rounds_count - num_missed_rounds, Pow2(num_missed_rounds) - 1>>)
        ELSE Ok(<<rounds_count, 0>>)

\* Fri::num_rounds: (rounds_count, max_degree_of_last_round).  rounds_count
\* is a u8, and "rounds_count -= num_missed_rounds" leaves its range when
\* more rounds are missed than there are.
num_rounds(domain_length, expansion_factor, colinearity_checks_count, overflow_checks) ==
    LET max_degree == (domain_length \div expansion_factor) - 1
        rounds_count == log_2_ceil(max_degree + 1) % U8
    IN  IF expansion_factor < colinearity_checks_count
        THEN LET num_missed_rounds ==
                     log_2_ceil(ceil_of_quotient(colinearity_checks_count, expansion_factor)) % U8
             IN  IF rounds_count < num_missed_rounds
                 THEN IF overflow_checks THEN Panic
                      ELSE Ok(<<rounds_count - num_missed_rounds + U8, Pow2(num_missed_rounds) - 1>>)
                 ELSE Ok(<<rounds_count - num_missed_rounds, Pow2(num_missed_rounds) - 1>>)
        ELSE Ok(<<rounds_count, 0>>)

\* The Fri objects num_rounds is called on: the lengths are powers of two
\* with expansion_factor <= domain_length, and the build is either kind.
FriParameters ==
    {[domain_length |-> Pow2(l), expansion_factor |-> Pow2(x),
      colinearity_checks_count |-> c, overflow_checks |-> b] :
        l \in 0..MaxLogLen, x \in 0..MaxLogLen, c \in 1..MaxChecks, b \in BOOLEAN}

InitRounds ==
    /\ InitMmr
    /\ StarkIdle
    /\ FriIdle
    /\ TableIdle
    /\ fn_arg \in {f \in FriParameters : f.expansion_factor <= f.domain_length}
    /\ fn_ret = [op |-> "none"]

\* fri.num_rounds()
NumRounds ==
    /\ fn_ret.op = "none"
    /\ fn_ret' = [op |-> "num_rounds",
                  out |-> num_rounds(fn_arg.domain_length, fn_arg.expansion_factor,
                                     fn_arg.colinearity_checks_count, fn_arg.overflow_checks)]
    /\ UNCHANGED fn_arg
    /\ UNCHANGED <<starkVars, mmrVars, friVars, tableVars>>

\* usize has 64 bits; a shift by 64 or more panics in a build with overflow
\* checks and shifts by the amount modulo 64 in a build without
USIZE_BITS == 64

\* value >> amount for amount < USIZE_BITS; the values of the model are
\* below 2^30, and a shift by 30 or more leaves 0
shr(value, amount) == IF amount >= 30 THEN 0 ELSE value \div Pow2(amount)

\* self.domain_length >> num_rounds
shr_usize(value, amount, overflow_checks) ==
    IF amount >= USIZE_BITS
    THEN IF overflow_checks THEN Panic ELSE Ok(shr(value, amount % USIZE_BITS))
    ELSE Ok(shr(value, amount))

\* The start of Fri::sample_indices: num_rounds, last_codeword_length and the
\* assertion colinearity_checks_count <= last_codeword_length.  Ok carries
\* the last codeword length; the call panics when num_rounds or the shift
\* panics and when the assertion fails.
sample_indices_start(domain_length, expansion_factor, colinearity_checks_count, overflow_checks) ==
    LET rounds == num_rounds(domain_length, expansion_factor,
                             colinearity_checks_count, overflow_checks)
    IN  IF rounds.panic THEN Panic
        ELSE LET last_codeword_length ==
                     shr_usize(domain_length, rounds.val[1], overflow_checks)
             IN  IF last_codeword_length.panic THEN Panic
                 ELSE IF colinearity_checks_count <= last_codeword_length.val
                      THEN last_codeword_length
                      ELSE Panic

\* fri.sample_indices(seed), up to its assertion
SampleIndicesStart ==
    /\ fn_ret.op = "none"
    /\ fn_ret' = [op |-> "sample_indices",
                  out |-> sample_indices_start(fn_arg.domain_length, fn_arg.expansion_factor,
                                               fn_arg.colinearity_checks_count,
                                               fn_arg.overflow_checks)]
    /\ UNCHANGED fn_arg
    /\ UNCHANGED <<starkVars, mmrVars, friVars, tableVars>>

NextRounds ==
    \/ NumRounds
    \/ SampleIndicesStart

SpecRounds == InitRounds /\ [][NextRounds]_vars

(***************************************************************************)
(* BFieldElement (b_field_element.rs).  The integer types are modelled at  *)
(* one eighth of their width, so that every value is an integer of the     *)
(* model checker: u64 has BITS_U64 = 8 bits, u128 has BITS_U128 = 16 bits, *)
(* and the modulus 2^64 - 2^32 + 1 becomes QUOTIENT = 2^8 - 2^4 + 1 = 241, *)
(* a prime with QUOTIENT - 1 = 2^4 * 3 * 5 as the original has             *)
(* 2^32 * 3 * 5 * 17 * 257 * 65537.  As in the original, a product of two  *)
(* values up to QUOTIENT fits the wide type, 2^BITS_U128 is -2^(BITS_U64/2)*)
(* modulo QUOTIENT, and 2^BITS_U64 + 1 is coprime to QUOTIENT - 1.         *)
(* A BFieldElement is its stored integer, self.0.                          *)
(***************************************************************************)

BITS_U64 == 8
BITS_U128 == 16
QUOTIENT == 241

U64 == Pow2(BITS_U64)
U128 == Pow2(BITS_U128)

MAX == QUOTIENT - 1

\* a - b on u128
u128_sub(a, b, overflow_checks) ==
    IF a >= b THEN Ok(a - b)
    ELSE IF overflow_checks THEN Panic ELSE Ok(a - b + U128)

\* a * b modulo 2^BITS_U128, computed from the two halves of b
wrapping_mul(a, b) ==
    (a * (b % U64) + ((a * (b \div U64)) % U64) * U64) % U128

\* a * b on u128
u128_mul(a, b, overflow_checks) ==
    IF b = 0 \/ a <= (U128 - 1) \div b THEN Ok(a * b)
    ELSE IF overflow_checks THEN Panic ELSE Ok(wrapping_mul(a, b))

\* BFieldElement::new
new(value) == value % QUOTIENT

\* The while loop of eea::<u128>
RECURSIVE eea_loop(_, _, _, _, _, _, _)
eea_loop(x, y, a_factor, a1, b_factor, b1, overflow_checks) ==
    IF y = 0 THEN Ok(<<x, a_factor, b_factor>>)
    ELSE LET quotient == x \div y
             remainder == x % y
             qa == u128_mul(quotient, a1, overflow_checks)
             c == IF qa.panic THEN Panic ELSE u128_sub(a_factor, qa.val, overflow_checks)
             qb == u128_mul(quotient, b1, overflow_checks)
             d == IF qb.panic THEN Panic ELSE u128_sub(b_factor, qb.val, overflow_checks)
         IN  IF c.panic \/ d.panic THEN Panic
             ELSE eea_loop(y, remainder, a1, c.val, b1, d.val, overflow_checks)

\* BFieldElement::eea::<u128>(x, y): (gcd, a_factor, b_factor)
eea(x, y, overflow_checks) == eea_loop(x, y, 1, 0, 0, 1, overflow_checks)

\* BFieldElement::inv
inv(self, overflow_checks) ==
    LET r == eea(QUOTIENT, self, overflow_checks) IN
    IF r.panic THEN Panic
    ELSE Ok(((r.val[3] % QUOTIENT) + QUOTIENT) % QUOTIENT)

\* The for loop of mod_pow_raw, i in 0..128 of the original.  The literal 1
\* has the type of pow, u64, so that a shift by BITS_U64 or more leaves the
\* range: it panics with overflow checks, and without them the shift amount
\* is taken modulo BITS_U64.
RECURSIVE mod_pow_raw_loop(_, _, _, _, _)
mod_pow_raw_loop(res, pow, i, acc, overflow_checks) ==
    IF i = BITS_U128 THEN Ok(acc)
    ELSE LET squared == (acc * acc) % QUOTIENT
             shift == BITS_U128 - 1 - i
         IN  IF shift >= BITS_U64 /\ overflow_checks THEN Panic
             ELSE LET set == (pow \div Pow2(shift % BITS_U64)) % 2 = 1 IN
                  mod_pow_raw_loop(res, pow, i + 1,
                                   IF set THEN (squared * res) % QUOTIENT ELSE squared,
                                   overflow_checks)

\* BFieldElement::mod_pow_raw
mod_pow_raw(self, pow, overflow_checks) ==
    IF pow = 0 THEN Ok(1) ELSE mod_pow_raw_loop(self, pow, 0, 1, overflow_checks)

\* BFieldElement::mod_pow
mod_pow(self, pow, overflow_checks) == mod_pow_raw(self, pow, overflow_checks)

\* impl Add
add(self, other) == (self + other) % QUOTIENT

\* impl Mul
mul(self, other) == (self * other) % QUOTIENT

\* impl Neg
neg(self) == QUOTIENT - self

\* impl Sub: -other + self
sub(self, other) == add(neg(other), self)

\* impl Div: other.inv().0 * self.0 % QUOTIENT
div(self, other, overflow_checks) ==
    LET i == inv(other, overflow_checks) IN
    IF i.panic THEN Panic ELSE Ok((i.val * self) % QUOTIENT)

\* BFieldElement::legendre_symbol
legendre_symbol(self, overflow_checks) ==
    LET elem == mod_pow(self, ((QUOTIENT - 1) % U64) \div 2, overflow_checks) IN
    IF elem.panic THEN Panic
    ELSE IF elem.val = QUOTIENT - 1 THEN Ok(0 - 1)
    ELSE IF elem.val = 0 THEN Ok(0)
    ELSE Ok(1)

\* utils::FIRST_THOUSAND_PRIMES holds d
IsListedPrime(d) == d >= 2 /\ \A k \in 2..(d - 1) : d % k # 0

\* while m % prime == 0 { m /= prime }
RECURSIVE divide_out(_, _)
divide_out(m, prime) == IF m % prime = 0 THEN divide_out(m \div prime, prime) ELSE m

\* for prime in FIRST_THOUSAND_PRIMES: the distinct prime factors of n, in
\* increasing order, until m is 1
RECURSIVE prime_factors_loop(_, _, _)
prime_factors_loop(m, prime, primes) ==
    IF m = 1 THEN primes
    ELSE IF IsListedPrime(prime) /\ m % prime = 0
    THEN prime_factors_loop(divide_out(m, prime), prime + 1, Append(primes, prime))
    ELSE prime_factors_loop(m, prime + 1, primes)

\* the prime factorization step of get_primitive_root_of_unity; n & (n - 1) == 0
\* holds for the powers of two
prime_factors(n) ==
    IF Pow2(log_2_floor(n)) = n THEN <<2>> ELSE prime_factors_loop(n, 2, << >>)

\* primes.iter().filter(|&x| n % x == 0).all(|x| !candidate.mod_pow_raw((QUOTIENT - 1) / x).is_one())
RECURSIVE all_powers_differ_from_one(_, _, _, _)
all_powers_differ_from_one(candidate, n, primes, overflow_checks) ==
    IF primes = << >> THEN Ok(TRUE)
    ELSE IF n % Head(primes) # 0
    THEN all_powers_differ_from_one(candidate, n, Tail(primes), overflow_checks)
    ELSE LET pw == mod_pow_raw(candidate, ((QUOTIENT - 1) \div Head(primes)) % U64,
                               overflow_checks)
         IN  IF pw.panic THEN Panic
             ELSE IF pw.val = 1 THEN Ok(FALSE)
             ELSE all_powers_differ_from_one(candidate, n, Tail(primes), overflow_checks)

\* while primitive_root == None && candidate.0 < QUOTIENT
RECURSIVE primitive_root_search(_, _, _, _)
primitive_root_search(n, primes, candidate, overflow_checks) ==
    IF candidate >= QUOTIENT THEN Ok(None)
    ELSE LET l == legendre_symbol(candidate, overflow_checks) IN
         IF l.panic THEN Panic
         ELSE IF 0 - l.val # 1
         THEN primitive_root_search(n, primes, candidate + 1, overflow_checks)
         ELSE LET all == all_powers_differ_from_one(candidate, n, primes, overflow_checks) IN
              IF all.panic THEN Panic
              ELSE IF ~all.val
              THEN primitive_root_search(n, primes, candidate + 1, overflow_checks)
              ELSE LET root == mod_pow(candidate, ((QUOTIENT - 1) \div n) % U64,
                                       overflow_checks)
                   IN  IF root.panic THEN Panic ELSE Ok(Some(root.val))

\* BFieldElement::get_primitive_root_of_unity, the Option of the returned pair
get_primitive_root_of_unity(n, overflow_checks) ==
    IF n <= 1 THEN Ok(Some(1))
    ELSE IF (QUOTIENT - 1) % n # 0 THEN Ok(None)
    ELSE primitive_root_search(n, prime_factors(n), 1, overflow_checks)

(***************************************************************************)
(* Calls on BFieldElement: self is new(value), and each action is one call *)
(* of one operation.                                                       *)
(***************************************************************************)

\* exponents: the small ones, and the largest of the type
Exponents == (0..MaxExp) \cup ((U64 - 1 - MaxExp)..(U64 - 1))

InitField ==
    /\ InitMmr
    /\ StarkIdle
    /\ FriIdle
    /\ TableIdle
    /\ fn_arg \in [value : 0..(QUOTIENT + 1),
                   other : (0..MaxOther) \cup {MAX},
                   pow : Exponents,
                   overflow_checks : BOOLEAN]
    /\ fn_ret = [op |-> "none"]

\* The element the operations are called on
Self == new(fn_arg.value)

Returns(op, out) ==
    /\ fn_ret.op = "none"
    /\ fn_ret' = [op |-> op, out |-> out]
    /\ UNCHANGED fn_arg
    /\ UNCHANGED <<starkVars, mmrVars, friVars, tableVars>>

FieldNew == Returns("new", Ok(new(fn_arg.value)))

FieldAdd == Returns("add", Ok(add(Self, fn_arg.other)))

FieldSub == Returns("sub", Ok(sub(Self, fn_arg.other)))

FieldMul == Returns("mul", Ok(mul(Self, fn_arg.other)))

FieldDiv == Returns("div", div(Self, fn_arg.other, fn_arg.overflow_checks))

\* a / a
FieldDivSelf == Returns("div_self", div(Self, Self, fn_arg.overflow_checks))

FieldNeg == Returns("neg", Ok(neg(Self)))

FieldInv == Returns("inv", inv(Self, fn_arg.overflow_checks))

FieldModPow == Returns("mod_pow", mod_pow(Self, fn_arg.pow, fn_arg.overflow_checks))

NextField ==
    \/ FieldNew
    \/ FieldAdd
    \/ FieldSub
    \/ FieldMul
    \/ FieldDiv
    \/ FieldDivSelf
    \/ FieldNeg
    \/ FieldInv
    \/ FieldModPow

SpecField == InitField /\ [][NextField]_vars

InitRoot ==
    /\ InitMmr
    /\ StarkIdle
    /\ FriIdle
    /\ TableIdle
    /\ fn_arg \in [n : 0..MaxOrder, overflow_checks : BOOLEAN]
    /\ fn_ret = [op |-> "none"]

\* BFieldElement::get_primitive_root_of_unity(n)
GetPrimitiveRootOfUnity ==
    Returns("get_primitive_root_of_unity",
            get_primitive_root_of_unity(fn_arg.n, fn_arg.overflow_checks))

NextRoot == GetPrimitiveRootOfUnity

SpecRoot == InitRoot /\ [][NextRoot]_vars

(***************************************************************************)
(* Fri (x_field_fri.rs).  The field F::Elem, the Merkle tree, the          *)
(* polynomial helpers and the proof stream are not part of the source at   *)
(* hand.  The field is the prime field of FriPrime elements, whose units   *)
(* are generated by FriGenerator; a Merkle tree keeps its leaves, its root *)
(* is a binding commitment to them, and an authentication path carries the *)
(* opened value.                                                           *)
(***************************************************************************)

FriPrime == 17
FriGenerator == 3

FAdd(a, b) == (a + b) % FriPrime
FSub(a, b) == (a + FriPrime - b) % FriPrime
FMul(a, b) == (a * b) % FriPrime

RECURSIVE FPow(_, _)
FPow(a, e) ==
    IF e = 0 THEN 1
    ELSE LET h == FPow(a, e \div 2) IN
         IF e % 2 = 0 THEN FMul(h, h) ELSE FMul(FMul(h, h), a)

FInv(a) == FPow(a, FriPrime - 2)
FDiv(a, b) == FMul(a, FInv(b))

\* get_primitive_root_of_unity(n) of the field
FriOmega(n) == FPow(FriGenerator, (FriPrime - 1) \div n)

\* g.get_cyclic_group(): 1, g, g^2, ... up to the order of g
RECURSIVE get_cyclic_group_loop(_, _, _)
get_cyclic_group_loop(g, cur, acc) ==
    IF cur = 1 /\ acc # << >> THEN acc
    ELSE get_cyclic_group_loop(g, FMul(cur, g), Append(acc, cur))

get_cyclic_group(g) == get_cyclic_group_loop(g, 1, << >>)

\* Polynomial::evaluate, coefficients from the constant term up
RECURSIVE PolyEval(_, _)
PolyEval(coefficients, x) ==
    IF coefficients = << >> THEN 0
    ELSE FAdd(Head(coefficients), FMul(x, PolyEval(Tail(coefficients), x)))

\* Polynomial::degree: the highest index of a nonzero coefficient, or -1
RECURSIVE PolyDegree(_)
PolyDegree(coefficients) ==
    IF coefficients = << >> THEN 0 - 1
    ELSE IF coefficients[Len(coefficients)] # 0 THEN Len(coefficients) - 1
    ELSE PolyDegree(SubSeq(coefficients, 1, Len(coefficients) - 1))

RECURSIVE FSum(_)
FSum(xs) == IF xs = << >> THEN 0 ELSE FAdd(Head(xs), FSum(Tail(xs)))

\* ntt::intt(values, omega): the coefficients of the interpolant through
\* (omega^i, values[i])
intt(values, omega) ==
    LET n == Len(values)
        omega_inv == FInv(omega)
    IN  [j \in 1..n |->
            FMul(FInv(n % FriPrime),
                 FSum([i \in 1..n |-> FMul(values[i], FPow(omega_inv, (i - 1) * (j - 1)))]))]

\* Polynomial::are_colinear_3: the three points lie on one line
are_colinear_3(a, b, c) ==
    FMul(FSub(b[2], a[2]), FSub(c[1], a[1])) = FMul(FSub(c[2], a[2]), FSub(b[1], a[1]))

\* MerkleTree::from_vec, get_root, get_multi_proof, verify_multi_proof
MerkleTree_from_vec(codeword) == codeword

get_root(mt) == [root_of |-> mt]

get_multi_proof(mt, indices) == [k \in 1..Len(indices) |-> [value |-> mt[indices[k] + 1]]]

verify_multi_proof(root, indices, proof) ==
    /\ Len(proof) = Len(indices)
    /\ \A k \in 1..Len(indices) :
          /\ indices[k] < Len(root.root_of)
          /\ proof[k].value = root.root_of[indices[k] + 1]

\* Items of the proof stream
RootItem(root) == [kind |-> "root", val |-> root]
CodewordItem(codeword) == [kind |-> "codeword", val |-> codeword]
PathsItem(paths) == [kind |-> "paths", val |-> paths]

\* Fri::new
Fri_new(offset, omega, domain_length, expansion_factor, colinearity_checks_count) ==
    [offset |-> offset, omega |-> omega, domain_length |-> domain_length,
     expansion_factor |-> expansion_factor,
     colinearity_checks_count |-> colinearity_checks_count]

\* self.num_rounds() of a Fri object whose subtraction stays in range
fri_num_rounds(f) ==
    num_rounds(f.domain_length, f.expansion_factor, f.colinearity_checks_count, TRUE).val

\* The fold with (1 + alpha / x) as the factor of both halves
fold_same_sign(codeword_local, alpha, generator, offset) ==
    LET n == Len(codeword_local)
        group == get_cyclic_group(generator)
        x_offset == [i \in 1..Len(group) |-> FMul(group[i], offset)]
        x_offset_inverses == [i \in 1..Len(x_offset) |-> FInv(x_offset[i])]
        two_inv == FDiv(1, FAdd(1, 1))
    IN  [i \in 1..(n \div 2) |->
            FMul(two_inv,
                 FAdd(FMul(FAdd(1, FMul(alpha, x_offset_inverses[i])), codeword_local[i]),
                      FMul(FAdd(1, FMul(alpha, x_offset_inverses[i])),
                           codeword_local[(n \div 2) + i])))]

\* verify folding the indices to the length of the round's codeword
verifier_c_indices_whole(top_level_indices, domain_length, r) ==
    [k \in 1..Len(top_level_indices) |-> top_level_indices[k] % (domain_length \div Pow2(r))]

\* verify: top_level_indices.iter().map(|x| x % (self.domain_length >> (r + 1)))
verifier_c_indices(top_level_indices, domain_length, r) ==
    [k \in 1..Len(top_level_indices) |->
        top_level_indices[k] % (domain_length \div Pow2(r + 1))]

\* prove: c_indices.iter().map(|x| x % (codewords[i].len() / 2))
fold_indices(c_indices, codeword_length) ==
    [k \in 1..Len(c_indices) |-> c_indices[k] % (codeword_length \div 2)]

\* One round of the loop of Fri::commit: the codeword of length n folded to
\* length n / 2 with the challenge alpha, over the points offset * generator^i
fold(codeword_local, alpha, generator, offset) ==
    LET n == Len(codeword_local)
        group == get_cyclic_group(generator)
        x_offset == [i \in 1..Len(group) |-> FMul(group[i], offset)]
        x_offset_inverses == [i \in 1..Len(x_offset) |-> FInv(x_offset[i])]
        two_inv == FDiv(1, FAdd(1, 1))
    IN  [i \in 1..(n \div 2) |->
            FMul(two_inv,
                 FAdd(FMul(FAdd(1, FMul(alpha, x_offset_inverses[i])), codeword_local[i]),
                      FMul(FSub(1, FMul(alpha, x_offset_inverses[i])),
                           codeword_local[(n \div 2) + i])))]

\* the list with nothing removed
KeepAll(xs, index) == xs

\* remaining_last_round_exponents.remove(index), index counted from 0
RemoveAt(xs, index) == SubSeq(xs, 1, index) \o SubSeq(xs, index + 2, Len(xs))

\* The first loop of sample_indices: count indices removed one after the
\* other from the remaining exponents, at the positions the hash selects.
\* The set of the lists the loop can produce.
RECURSIVE last_indices_from(_, _)
last_indices_from(remaining, count) ==
    IF count = 0 THEN {<< >>}
    ELSE UNION {{<<remaining[i + 1]>> \o rest :
                    rest \in last_indices_from(RemoveAt(remaining, i), count - 1)} :
                i \in 0..(Len(remaining) - 1)}

\* The second loop of sample_indices, for i in 1..num_rounds: every index
\* stays or moves up by codeword_length / 2, as the hash selects.
RECURSIVE lift_indices(_, _, _, _)
lift_indices(candidates, i, rounds, last_codeword_length) ==
    IF i >= rounds THEN candidates
    ELSE LET codeword_length == last_codeword_length * Pow2(i)
             lifted == UNION {{[k \in 1..Len(indices) |->
                                   indices[k] + bits[k] * (codeword_length \div 2)] :
                                bits \in [1..Len(indices) -> {0, 1}]} :
                              indices \in candidates}
         IN  lift_indices(lifted, i + 1, rounds, last_codeword_length)

\* Fri::sample_indices: the index lists it returns over all seeds; the
\* assertion fails, and the set is empty, when the count of checks exceeds
\* the length of the last codeword.
sample_indices(f) ==
    LET rounds == fri_num_rounds(f)[1]
        last_codeword_length == f.domain_length \div Pow2(rounds)
    IN  IF f.colinearity_checks_count > last_codeword_length THEN {}
        ELSE lift_indices(
                 last_indices_from([k \in 1..last_codeword_length |-> k - 1],
                                   f.colinearity_checks_count),
                 1, rounds, last_codeword_length)

(***************************************************************************)
(* Fri::sample_indices on its own, over more Fri objects than prove and    *)
(* verify are run on: one call, with any outcome of the hash.              *)
(***************************************************************************)

\* The Fri objects sample_indices returns on: powers of two L >= e >= 1 and
\* 1 <= c <= L
SampledObjects ==
    {[domain_length |-> Pow2(l), expansion_factor |-> Pow2(x),
      colinearity_checks_count |-> c] :
        l \in 0..SampleLogLen, x \in 0..SampleLogLen, c \in 1..SampleMaxChecks}

InitSample ==
    /\ InitMmr
    /\ StarkIdle
    /\ FriIdle
    /\ TableIdle
    /\ fn_arg \in {f \in SampledObjects : /\ f.expansion_factor <= f.domain_length
                                          /\ f.colinearity_checks_count <= f.domain_length}
    /\ fn_ret = [op |-> "none"]

\* fri.sample_indices(seed) returning indices
SampleIndices ==
    /\ fn_ret.op = "none"
    /\ \E indices \in sample_indices(fn_arg) :
          fn_ret' = [op |-> "sample_indices", out |-> indices]
    /\ UNCHANGED fn_arg
    /\ UNCHANGED <<starkVars, mmrVars, friVars, tableVars>>

NextSample == SampleIndices

SpecSample == InitSample /\ [][NextSample]_vars

(***************************************************************************)
(* Fri::prove followed by Fri::verify on the same proof stream, as in      *)
(* fri_x_field_limit_test.  Each action is one step of prove or of verify: *)
(* the steps between two uses of the proof stream.                         *)
(***************************************************************************)

\* get_x_field_fri_test_object: the offset is 7, omega has order
\* domain_length; the expansion factor is 2 or 4
FriObjects ==
    {Fri_new(7 % FriPrime, FriOmega(Pow2(FriLogLen)), Pow2(FriLogLen), e, c) :
        e \in {2, 4}, c \in 1..FriMaxChecks}

\* The coefficient lists of the polynomials of degree at most L / e
Polynomials(f) == [1..((f.domain_length \div f.expansion_factor) + 1) -> 0..MaxCoeff]

\* points = subgroup.iter().map(|p| ...): the polynomial on omega's group
codeword_of(f, coefficients) ==
    LET subgroup == get_cyclic_group(f.omega) IN
    [i \in 1..Len(subgroup) |-> PolyEval(coefficients, subgroup[i])]

\* Fri::get_evaluation_domain: the points offset * omega^i
get_evaluation_domain(f) ==
    LET omega_domain == get_cyclic_group(f.omega) IN
    [i \in 1..Len(omega_domain) |-> FMul(omega_domain[i], f.offset)]

\* The polynomial on the evaluation domain of the Fri object
codeword_on_domain(f, coefficients) ==
    LET domain == get_evaluation_domain(f) IN
    [i \in 1..Len(domain) |-> PolyEval(coefficients, domain[i])]

InitFri ==
    /\ InitMmr
    /\ StarkIdle
    /\ PureIdle
    /\ TableIdle
    /\ \E f \in FriObjects : \E coefficients \in Polynomials(f) :
          \E codeword \in {codeword_of(f, coefficients),
                           codeword_on_domain(f, coefficients)} :
              fri = [object |-> f, coefficients |-> coefficients,
                     codeword |-> codeword]
    /\ fri_stream = << >>
    /\ fri_prover = [pc |-> "root", merkle_trees |-> << >>,
                     generator |-> 0, offset |-> 0,
                     alpha_seeds |-> << >>, alphas |-> << >>,
                     index_seed |-> << >>, top_level_indices |-> << >>,
                     c_indices |-> << >>, opened |-> << >>]
    /\ fri_verifier = [pc |-> "idle", read |-> 0, roots |-> << >>,
                       alpha_seeds |-> << >>, alphas |-> << >>,
                       omega |-> 0, offset |-> 0,
                       index_seed |-> << >>, top_level_indices |-> << >>,
                       folded |-> << >>, result |-> "none"]
    /\ fri_oracle = [alpha |-> << >>, indices |-> << >>]

friOthersIdle == UNCHANGED <<starkVars, mmrVars, pureVars, tableVars>>

FriRounds == fri_num_rounds(fri.object)[1]
FriLastDegree == fri_num_rounds(fri.object)[2]

\* The oracle answers seed with value: the value drawn before for this seed,
\* or any value of the range when the seed is new.
Answers(drawn, seed, value, range) ==
    IF seed \in DOMAIN drawn THEN value = drawn[seed] ELSE value \in range

Recorded(drawn, seed, value) ==
    [t \in (DOMAIN drawn) \cup {seed} |-> IF t = seed THEN value ELSE drawn[t]]

Alphas == 0..(NumAlphas - 1)

\* commit: the Merkle root of the codeword is enqueued
ProveCommitRoot ==
    /\ fri_prover.pc = "root"
    /\ LET mt == MerkleTree_from_vec(fri.codeword) IN
       /\ fri_stream' = Append(fri_stream, RootItem(get_root(mt)))
       /\ fri_prover' = [fri_prover EXCEPT
              !.pc = IF FriRounds = 0 THEN "last" ELSE "fold",
              !.merkle_trees = <<mt>>,
              !.generator = fri.object.omega,
              !.offset = fri.object.offset]
    /\ UNCHANGED <<fri, fri_verifier, fri_oracle>>
    /\ friOthersIdle

\* commit, one round of the loop: the challenge from the stream so far, the
\* folded codeword, its root enqueued, generator and offset squared
ProveCommitRound(alpha) ==
    /\ fri_prover.pc = "fold"
    /\ LET seed == prover_fiat_shamir(fri_stream)
           codeword_local == fri_prover.merkle_trees[Len(fri_prover.merkle_trees)]
           folded == fold(codeword_local, alpha, fri_prover.generator, fri_prover.offset)
           mt == MerkleTree_from_vec(folded)
       IN  /\ Answers(fri_oracle.alpha, seed, alpha, Alphas)
           /\ fri_oracle' = [fri_oracle EXCEPT !.alpha = Recorded(@, seed, alpha)]
           /\ fri_stream' = Append(fri_stream, RootItem(get_root(mt)))
           /\ fri_prover' = [fri_prover EXCEPT
                  !.pc = IF Len(fri_prover.merkle_trees) = FriRounds THEN "last" ELSE "fold",
                  !.merkle_trees = Append(@, mt),
                  !.generator = FMul(@, @),
                  !.offset = FMul(@, @),
                  !.alpha_seeds = Append(@, seed),
                  !.alphas = Append(@, alpha)]
    /\ UNCHANGED <<fri, fri_verifier>>
    /\ friOthersIdle

\* commit: the last codeword is enqueued
ProveCommitLast ==
    /\ fri_prover.pc = "last"
    /\ fri_stream' = Append(fri_stream,
                            CodewordItem(fri_prover.merkle_trees[Len(fri_prover.merkle_trees)]))
    /\ fri_prover' = [fri_prover EXCEPT !.pc = "sample"]
    /\ UNCHANGED <<fri, fri_verifier, fri_oracle>>
    /\ friOthersIdle

\* prove: the top-level indices are sampled from the stream so far
ProveSampleIndices(indices) ==
    /\ fri_prover.pc = "sample"
    /\ LET seed == prover_fiat_shamir(fri_stream) IN
       /\ Answers(fri_oracle.indices, seed, indices, sample_indices(fri.object))
       /\ fri_oracle' = [fri_oracle EXCEPT !.indices = Recorded(@, seed, indices)]
       /\ fri_prover' = [fri_prover EXCEPT
              !.pc = IF FriRounds = 0 THEN "done" ELSE "query",
              !.index_seed = seed,
              !.top_level_indices = indices,
              !.c_indices = indices]
    /\ UNCHANGED <<fri, fri_stream, fri_verifier>>
    /\ friOthersIdle

\* prove, one round of the query loop: the indices folded to half the length
\* of the round's codeword, and query enqueues the two openings
ProveQuery ==
    /\ fri_prover.pc = "query"
    /\ LET i == Len(fri_prover.opened)
           current_mt == fri_prover.merkle_trees[i + 1]
           next_mt == fri_prover.merkle_trees[i + 2]
           c_indices == fold_indices(fri_prover.c_indices, Len(current_mt))
           b_indices == [k \in 1..Len(c_indices) |-> c_indices[k] + (Len(current_mt) \div 2)]
           ab_indices == c_indices \o b_indices
       IN  /\ fri_stream' = fri_stream
                  \o <<PathsItem(get_multi_proof(current_mt, ab_indices)),
                       PathsItem(get_multi_proof(next_mt, c_indices))>>
           /\ fri_prover' = [fri_prover EXCEPT
                  !.pc = IF i + 1 = Len(fri_prover.merkle_trees) - 1 THEN "done" ELSE "query",
                  !.c_indices = c_indices,
                  !.opened = Append(@, [ab_indices |-> ab_indices, c_indices |-> c_indices])]
    /\ UNCHANGED <<fri, fri_verifier, fri_oracle>>
    /\ friOthersIdle

\* proof_stream.dequeue: the next item, when there is one of the kind asked for
HasNext(kind) ==
    /\ fri_verifier.read < Len(fri_stream)
    /\ fri_stream[fri_verifier.read + 1].kind = kind

NextItem == fri_stream[fri_verifier.read + 1].val

VerifyFails(error) ==
    fri_verifier' = [fri_verifier EXCEPT !.pc = "done", !.result = error]

\* verify is called on the stream prove returned: the first root is dequeued
VerifyFirstRoot ==
    /\ fri_prover.pc = "done"
    /\ fri_verifier.pc = "idle"
    /\ IF HasNext("root")
       THEN fri_verifier' = [fri_verifier EXCEPT
                !.pc = IF FriRounds = 0 THEN "last" ELSE "alpha",
                !.read = @ + 1,
                !.roots = <<NextItem>>,
                !.omega = fri.object.omega,
                !.offset = fri.object.offset]
       ELSE VerifyFails("Dequeue")
    /\ UNCHANGED <<fri, fri_stream, fri_prover, fri_oracle>>
    /\ friOthersIdle

\* verify, one round of the first loop: the challenge from the items read so
\* far, then the next root dequeued
VerifyRound(alpha) ==
    /\ fri_verifier.pc = "alpha"
    /\ LET seed == verifier_fiat_shamir(fri_stream, fri_verifier.read) IN
       /\ Answers(fri_oracle.alpha, seed, alpha, Alphas)
       /\ fri_oracle' = [fri_oracle EXCEPT !.alpha = Recorded(@, seed, alpha)]
       /\ IF HasNext("root")
          THEN fri_verifier' = [fri_verifier EXCEPT
                   !.pc = IF Len(fri_verifier.roots) = FriRounds THEN "last" ELSE "alpha",
                   !.read = @ + 1,
                   !.roots = Append(@, NextItem),
                   !.alpha_seeds = Append(@, seed),
                   !.alphas = Append(@, alpha)]
          ELSE VerifyFails("Dequeue")
    /\ UNCHANGED <<fri, fri_stream, fri_prover>>
    /\ friOthersIdle

\* last_omega after num_rounds squarings
RECURSIVE squared_times(_, _)
squared_times(x, count) == IF count = 0 THEN x ELSE squared_times(FMul(x, x), count - 1)

\* verify: the last codeword is dequeued, compared with the last root, and
\* interpolated to bound its degree
VerifyLastCodeword ==
    /\ fri_verifier.pc = "last"
    /\ IF ~HasNext("codeword") THEN VerifyFails("Dequeue")
       ELSE LET last_codeword == NextItem
                last_omega == squared_times(fri.object.omega, FriRounds)
                last_poly_degree == PolyDegree(intt(last_codeword, last_omega))
            IN  IF fri_verifier.roots[Len(fri_verifier.roots)]
                        # get_root(MerkleTree_from_vec(last_codeword))
                THEN VerifyFails("BadMerkleRootForLastCodeword")
                ELSE IF last_poly_degree > FriLastDegree
                THEN VerifyFails("LastIterationTooHighDegree")
                ELSE fri_verifier' = [fri_verifier EXCEPT !.pc = "sample", !.read = @ + 1]
    /\ UNCHANGED <<fri, fri_stream, fri_prover, fri_oracle>>
    /\ friOthersIdle

\* verify: the top-level indices are sampled from the items read so far
VerifySampleIndices(indices) ==
    /\ fri_verifier.pc = "sample"
    /\ LET seed == verifier_fiat_shamir(fri_stream, fri_verifier.read) IN
       /\ Answers(fri_oracle.indices, seed, indices, sample_indices(fri.object))
       /\ fri_oracle' = [fri_oracle EXCEPT !.indices = Recorded(@, seed, indices)]
       /\ fri_verifier' = [fri_verifier EXCEPT
              !.pc = IF FriRounds = 0 THEN "done" ELSE "query",
              !.result = IF FriRounds = 0 THEN "Ok" ELSE @,
              !.index_seed = seed,
              !.top_level_indices = indices]
    /\ UNCHANGED <<fri, fri_stream, fri_prover>>
    /\ friOthersIdle

\* verify, round r of the second loop: the two openings are dequeued and
\* checked against the roots, the sample counts and the colinearity of the
\* three points
VerifyQuery ==
    /\ fri_verifier.pc = "query"
    /\ LET r == Len(fri_verifier.folded)
           count == fri.object.colinearity_checks_count
           half == fri.object.domain_length \div Pow2(r + 1)
           c_indices == verifier_c_indices(fri_verifier.top_level_indices,
                                           fri.object.domain_length, r)
           a_indices == c_indices
           b_indices == [k \in 1..Len(a_indices) |-> a_indices[k] + half]
           ab_indices == a_indices \o b_indices
           have_both ==
               /\ fri_verifier.read + 2 <= Len(fri_stream)
               /\ fri_stream[fri_verifier.read + 1].kind = "paths"
               /\ fri_stream[fri_verifier.read + 2].kind = "paths"
           ab_values == fri_stream[fri_verifier.read + 1].val
           c_values == fri_stream[fri_verifier.read + 2].val
           ax(k) == FMul(fri_verifier.offset, FPow(fri_verifier.omega, a_indices[k]))
           bx(k) == FMul(fri_verifier.offset, FPow(fri_verifier.omega, b_indices[k]))
           cx == fri_verifier.alphas[r + 1]
           folded == Append(fri_verifier.folded,
                            [ab_indices |-> ab_indices, c_indices |-> c_indices])
           fails(error) ==
               fri_verifier' = [fri_verifier EXCEPT
                   !.pc = "done", !.result = error, !.folded = folded]
       IN  IF ~have_both THEN fails("Dequeue")
           ELSE IF \/ ~verify_multi_proof(fri_verifier.roots[r + 1], ab_indices, ab_values)
                   \/ ~verify_multi_proof(fri_verifier.roots[r + 2], c_indices, c_values)
           THEN fails("BadMerkleProof")
           ELSE IF Len(ab_values) # 2 * count \/ Len(c_values) # count
           THEN fails("BadSizedProof")
           ELSE IF \E k \in 1..count :
                      ~are_colinear_3(<<ax(k), ab_values[k].value>>,
                                      <<bx(k), ab_values[k + count].value>>,
                                      <<cx, c_values[k].value>>)
           THEN fails("NotColinear")
           ELSE fri_verifier' = [fri_verifier EXCEPT
                    !.pc = IF r + 1 = FriRounds THEN "done" ELSE "query",
                    !.result = IF r + 1 = FriRounds THEN "Ok" ELSE @,
                    !.read = @ + 2,
                    !.omega = FMul(@, @),
                    !.offset = FMul(@, @),
                    !.folded = folded]
    /\ UNCHANGED <<fri, fri_stream, fri_prover, fri_oracle>>
    /\ friOthersIdle

NextFri ==
    \/ ProveCommitRoot
    \/ \E alpha \in Alphas : ProveCommitRound(alpha)
    \/ ProveCommitLast
    \/ \E indices \in sample_indices(fri.object) : ProveSampleIndices(indices)
    \/ ProveQuery
    \/ VerifyFirstRoot
    \/ \E alpha \in Alphas : VerifyRound(alpha)
    \/ VerifyLastCodeword
    \/ \E indices \in sample_indices(fri.object) : VerifySampleIndices(indices)
    \/ VerifyQuery

SpecFri == InitFri /\ [][NextFri]_vars

(***************************************************************************)
(* Index arithmetic of mmr.rs as called functions: the argument is drawn   *)
(* at the start, and each action is one call.                              *)
(***************************************************************************)

othersIdle == UNCHANGED <<starkVars, mmrVars, friVars, tableVars>>

InitIndex ==
    /\ InitMmr
    /\ StarkIdle
    /\ FriIdle
    /\ TableIdle
    /\ fn_arg \in 0..MaxIndex
    /\ fn_ret = [op |-> "none"]

\* data_index_to_node_index(fn_arg)
DataIndexToNodeIndex ==
    /\ fn_ret.op = "none"
    /\ fn_ret' = [op |-> "data_index_to_node_index", out |-> data_index_to_node_index(fn_arg)]
    /\ UNCHANGED fn_arg
    /\ othersIdle

\* node_index_to_data_index(fn_arg); node indices start at 1
NodeIndexToDataIndex ==
    /\ fn_ret.op = "none"
    /\ fn_arg >= 1
    /\ fn_ret' = [op |-> "node_index_to_data_index", out |-> node_index_to_data_index(fn_arg)]
    /\ UNCHANGED fn_arg
    /\ othersIdle

\* node_index_to_data_index(data_index_to_node_index(fn_arg)), as in data_index_node_index_pbt
DataIndexNodeIndexRoundTrip ==
    /\ fn_ret.op = "none"
    /\ fn_ret' = [op |-> "round_trip",
                  out |-> node_index_to_data_index(data_index_to_node_index(fn_arg))]
    /\ UNCHANGED fn_arg
    /\ othersIdle

NextIndex ==
    \/ DataIndexToNodeIndex
    \/ NodeIndexToDataIndex
    \/ DataIndexNodeIndexRoundTrip

SpecIndex == InitIndex /\ [][NextIndex]_vars

(***************************************************************************)
(* Stark::sample_weights and the weights of the nonlinear combination in   *)
(* Stark::prove and Stark::verify.                                         *)
(***************************************************************************)

\* StarkHasher::get_n_hash_rounds(seed, count): count digests, the i-th the
\* hash of the seed and i; a digest has six elements or more
get_n_hash_rounds(seed, count) ==
    [i \in 1..count |-> [j \in 1..6 |-> [seed |-> seed, round |-> i, element |-> j - 1]]]

\* Stark::sample_weights: two XFieldElements from each of count / 2 digests
sample_weights(seed, count) ==
    LET digests_of_rounds == get_n_hash_rounds(seed, count \div 2)
    IN  [k \in 1..(2 * Len(digests_of_rounds)) |->
            LET digest == digests_of_rounds[(k + 1) \div 2]
            IN  IF k % 2 = 1 THEN <<digest[1], digest[2], digest[3]>>
                             ELSE <<digest[4], digest[5], digest[6]>>]

\* weights[weights_counter] twice for each of the codewords left, as in the
\* three for loops of Stark::prove: Panic at the first index out of range,
\* else the counter after the last access
RECURSIVE weights_of_codewords(_, _, _)
weights_of_codewords(weights, weights_counter, codewords) ==
    IF codewords = 0 THEN Ok(weights_counter)
    ELSE IF weights_counter >= Len(weights) \/ weights_counter + 1 >= Len(weights) THEN Panic
    ELSE weights_of_codewords(weights, weights_counter + 2, codewords - 1)

\* Stark::prove from "Get weights for nonlinear combination" to the last
\* access of weights; the codewords are not empty
prove_combination(seed, num_base_polynomials, num_extension_polynomials, num_quotient_polynomials) ==
    LET num_randomizer_polynomials == 1
        weights_count == num_randomizer_polynomials
                         + 2 * (num_base_polynomials + num_extension_polynomials
                                + num_quotient_polynomials)
        weights == sample_weights(seed, weights_count)
    IN  IF 0 >= Len(weights) THEN Panic
        ELSE weights_of_codewords(weights, 1,
                                  num_base_polynomials + num_extension_polynomials
                                  + num_quotient_polynomials)

\* the number of terms that Stark::verify collects for one index
terms_len(num_base_polynomials, num_extension_polynomials, num_quotient_polynomials, num_difference_quotients) ==
    1 + 2 * num_base_polynomials + 2 * num_extension_polynomials
      + 2 * num_quotient_polynomials + 2 * num_difference_quotients

\* Stark::verify: the weights it samples and its assert_eq! of weights.len()
\* and terms.len()
verify_combination_lengths(seed, num_base_polynomials, num_extension_polynomials, num_quotient_polynomials, num_difference_quotients) ==
    LET num_randomizer_polynomials == 1
        weights_count == num_randomizer_polynomials
                         + 2 * num_base_polynomials + 2 * num_extension_polynomials
                         + 2 * num_quotient_polynomials + 2 * num_difference_quotients
        weights == sample_weights(seed, weights_count)
    IN  IF Len(weights) = terms_len(num_base_polynomials, num_extension_polynomials,
                                    num_quotient_polynomials, num_difference_quotients)
        THEN Ok(Len(weights))
        ELSE Panic

\* The numbers of polynomials of a Stark
InitWeights ==
    /\ InitMmr
    /\ StarkIdle
    /\ FriIdle
    /\ TableIdle
    /\ fn_arg \in [num_base_polynomials : 0..MaxPolys, num_extension_polynomials : 0..MaxPolys,
                    num_quotient_polynomials : 0..MaxPolys, num_difference_quotients : 0..MaxPolys]
    /\ fn_ret = [op |-> "none"]

\* the weights_count of Stark::verify
WeightsCount ==
    1 + 2 * (fn_arg.num_base_polynomials + fn_arg.num_extension_polynomials
             + fn_arg.num_quotient_polynomials + fn_arg.num_difference_quotients)

\* Self::sample_weights(&hasher, &seed, count)
SampleWeights(count) ==
    /\ fn_ret.op = "none"
    /\ fn_ret' = [op |-> "sample_weights", count |-> count,
                  out |-> sample_weights("weights_seed", count)]
    /\ UNCHANGED fn_arg
    /\ othersIdle

\* Stark::prove combines its codewords; the difference quotients are among
\* its quotient codewords
ProveCombination ==
    /\ fn_ret.op = "none"
    /\ fn_ret' = [op |-> "prove",
                  out |-> prove_combination("weights_seed", fn_arg.num_base_polynomials,
                              fn_arg.num_extension_polynomials,
                              fn_arg.num_quotient_polynomials + fn_arg.num_difference_quotients)]
    /\ UNCHANGED fn_arg
    /\ othersIdle

\* Stark::verify compares the lengths of weights and terms for an index
VerifyCombinationLengths ==
    /\ fn_ret.op = "none"
    /\ fn_ret' = [op |-> "verify",
                  out |-> verify_combination_lengths("weights_seed", fn_arg.num_base_polynomials,
                              fn_arg.num_extension_polynomials, fn_arg.num_quotient_polynomials,
                              fn_arg.num_difference_quotients)]
    /\ UNCHANGED fn_arg
    /\ othersIdle

NextWeights ==
    \/ \E count \in {WeightsCount - 1, WeightsCount} : SampleWeights(count)
    \/ ProveCombination
    \/ VerifyCombinationLengths

SpecWeights == InitWeights /\ [][NextWeights]_vars

(***************************************************************************)
(* Stark::verify after Fri::verify has returned Ok: the revealed elements, *)
(* their authentication paths and the nonlinear combination.  What         *)
(* verify_multi_proof_from_leaves, the comparison of a revealed combination*)
(* element with the inner product, and all_evaluation_arguments return is  *)
(* given by the proof.                                                     *)
(***************************************************************************)

\* Result<bool, Box<dyn Error>>, or the panic that ends the call
VerifyOk(b) == [kind |-> "Ok", val |-> b]
VerifyErr(e) == [kind |-> "Err", error |-> e]
VerifyPanic(msg) == [kind |-> "Panic", msg |-> msg]

\* "verify nonlinear combination": the for loop over indices from the i-th on
RECURSIVE verify_nonlinear_combination(_, _, _, _)
verify_nonlinear_combination(i, proof, weights, terms) ==
    IF i > proof.indices THEN VerifyOk(TRUE)
    ELSE IF Len(weights) # terms
    THEN VerifyPanic("length of terms must be equal to length of weights")
    ELSE IF proof.combination_differs_at = i
    THEN VerifyPanic("The combination leaf must equal the inner product")
    ELSE verify_nonlinear_combination(i + 1, proof, weights, terms)

\* Stark::verify from the revealed base elements to its end
verify_revealed(proof, polys) ==
    LET weights == sample_weights("weights_seed",
                       1 + 2 * polys.num_base_polynomials + 2 * polys.num_extension_polynomials
                         + 2 * polys.num_quotient_polynomials + 2 * polys.num_difference_quotients)
        terms == terms_len(polys.num_base_polynomials, polys.num_extension_polynomials,
                           polys.num_quotient_polynomials, polys.num_difference_quotients)
    IN  IF ~proof.mt_base_success
        THEN VerifyPanic("Failed to verify authentication path for base codeword")
        ELSE IF ~proof.mt_extension_success
        THEN VerifyPanic("Failed to verify authentication path for extension codeword")
        ELSE IF ~proof.mt_combination_success
        THEN VerifyPanic("Failed to verify authentication path for combination codeword")
        ELSE LET combination == verify_nonlinear_combination(1, proof, weights, terms)
             IN  IF combination.kind # "Ok" THEN combination
                 ELSE IF ~proof.all_evaluation_arguments
                 THEN VerifyErr("EvaluationArgument(0)")
                 ELSE VerifyOk(TRUE)

\* A Stark, by its numbers of polynomials, and a proof whose stream has the
\* right items and whose FRI part verifies
InitRevealed ==
    /\ InitMmr
    /\ StarkIdle
    /\ FriIdle
    /\ TableIdle
    /\ \E polys \in [num_base_polynomials : 0..MaxPolys, num_extension_polynomials : 0..1,
                      num_quotient_polynomials : 0..1, num_difference_quotients : 0..1],
          indices \in 0..MaxIndices :
          \E proof \in [indices : {indices},
                         mt_base_success : BOOLEAN, mt_extension_success : BOOLEAN,
                         mt_combination_success : BOOLEAN,
                         combination_differs_at : 0..indices,
                         all_evaluation_arguments : BOOLEAN] :
              fn_arg = [polys |-> polys, proof |-> proof]
    /\ fn_ret = [op |-> "none"]

\* stark.verify(&mut proof_stream)
VerifyRevealed ==
    /\ fn_ret.op = "none"
    /\ fn_ret' = [op |-> "verify", out |-> verify_revealed(fn_arg.proof, fn_arg.polys)]
    /\ UNCHANGED fn_arg
    /\ othersIdle

NextRevealed == VerifyRevealed

SpecRevealed == InitRevealed /\ [][NextRevealed]_vars

(***************************************************************************)
(* Base tables (instruction_table.rs, hash_table.rs).  A table's data is   *)
(* a sequence of rows, a row a sequence of BFieldElements; Rust index k of *)
(* a row is TLA+ index k + 1.                                              *)
(***************************************************************************)

\* instruction_table.rs
InstructionTable_BASE_WIDTH == 3
InstructionTable_FULL_WIDTH == 7
\* hash_table.rs
HashTable_BASE_WIDTH == 17

\* InstructionTableColumn as usize
Address == 0
CI == 1
NIA == 2

\* other::is_power_of_two
RECURSIVE is_power_of_two(_)
is_power_of_two(n) ==
    IF n = 0 THEN FALSE
    ELSE IF n = 1 THEN TRUE
    ELSE n % 2 = 0 /\ is_power_of_two(n \div 2)

\* vec![BWord::ring_zero(); BASE_WIDTH]
hash_padding_row == [k \in 1..HashTable_BASE_WIDTH |-> new(0)]

\* a padding row that repeats the last row as it is
instruction_last_row_again(data) == data[Len(data)]

\* data.last().unwrap().clone() with the address increased by one
instruction_padding_row(data) ==
    [data[Len(data)] EXCEPT ![Address + 1] = add(@, new(1))]

\* Rows of an instruction table: (address, current instruction, next instruction)
InstructionRows == {<<new(0), new(0), new(1)>>, <<new(1), new(1), new(0)>>,
                    <<new(QUOTIENT - 1), new(1), new(1)>>}

\* Rows of a hash table
HashRows == {hash_padding_row,
             [k \in 1..HashTable_BASE_WIDTH |-> new(1)],
             [k \in 1..HashTable_BASE_WIDTH |-> new(k)]}

\* Sequences of at most n elements of S
RECURSIVE SeqsUpTo(_, _)
SeqsUpTo(S, n) ==
    IF n = 0 THEN {<< >>}
    ELSE LET shorter == SeqsUpTo(S, n - 1)
         IN  shorter \cup {Append(sq, e) : sq \in {t \in shorter : Len(t) = n - 1}, e \in S}

\* A table as new_prover leaves it: the matrix it was given, unpadded
InitPad ==
    /\ InitMmr
    /\ StarkIdle
    /\ PureIdle
    /\ FriIdle
    /\ \/ \E data \in SeqsUpTo(InstructionRows, MaxRows) :
             table = [kind |-> "InstructionTable", data |-> data]
       \/ \E data \in SeqsUpTo(HashRows, MaxRows) :
             table = [kind |-> "HashTable", data |-> data]
    /\ table_call = [op |-> "none"]

tableOthersIdle == UNCHANGED <<starkVars, mmrVars, pureVars, friVars>>

\* the test of the while loop of pad
PadLoopTest(data) == data # << >> /\ ~is_power_of_two(Len(data))

\* pad is called: let data = self.mut_data()
PadStart ==
    /\ table_call.op = "none"
    /\ table_call' = [op |-> "pad", pc |-> "while", before |-> table.data]
    /\ UNCHANGED table
    /\ tableOthersIdle

\* one turn of the while loop of pad: the test holds and a row is pushed
PadPush ==
    /\ table_call.op = "pad"
    /\ table_call.pc = "while"
    /\ PadLoopTest(table.data)
    /\ table' = [table EXCEPT !.data =
                    Append(@, IF table.kind = "InstructionTable"
                              THEN instruction_padding_row(table.data)
                              ELSE hash_padding_row)]
    /\ UNCHANGED table_call
    /\ tableOthersIdle

\* the test of the while loop fails and pad returns
PadReturn ==
    /\ table_call.op = "pad"
    /\ table_call.pc = "while"
    /\ ~PadLoopTest(table.data)
    /\ table_call' = [table_call EXCEPT !.pc = "done"]
    /\ UNCHANGED table
    /\ tableOthersIdle

NextPad == PadStart \/ PadPush \/ PadReturn

SpecPad == InitPad /\ [][NextPad]_vars /\ WF_vars(PadPush) /\ WF_vars(PadReturn)

(***************************************************************************)
(* XFieldElement: a + b x + c x^2 over BFieldElement, modulo x^3 - x + 1,  *)
(* as the sequence of its coefficients <<a, b, c>>.                        *)
(***************************************************************************)

lift(elem) == <<elem, new(0), new(0)>>

xfe_add(l, r) == <<add(l[1], r[1]), add(l[2], r[2]), add(l[3], r[3])>>

xfe_sub(l, r) == <<sub(l[1], r[1]), sub(l[2], r[2]), sub(l[3], r[3])>>

\* the product of the polynomials, with x^3 = x - 1 and x^4 = x^2 - x
xfe_mul(l, r) ==
    LET c0 == mul(l[1], r[1])
        c1 == add(mul(l[1], r[2]), mul(l[2], r[1]))
        c2 == add(add(mul(l[1], r[3]), mul(l[2], r[2])), mul(l[3], r[1]))
        c3 == add(mul(l[2], r[3]), mul(l[3], r[2]))
        c4 == mul(l[3], r[3])
    IN  <<sub(c0, c3), sub(add(c1, c3), c4), add(c2, c4)>>

(***************************************************************************)
(* InstructionTable::extend.                                               *)
(***************************************************************************)

\* InstructionTableChallenges
InstructionTableChallenges ==
    {[processor_perm_row_weight |-> <<2, 0, 0>>,
      ip_processor_weight |-> <<1, 0, 0>>, ci_processor_weight |-> <<0, 1, 0>>,
      nia_processor_weight |-> <<0, 0, 1>>,
      program_eval_row_weight |-> <<3, 0, 0>>,
      address_weight |-> <<1, 1, 0>>, instruction_weight |-> <<0, 1, 1>>,
      next_instruction_weight |-> <<1, 0, 1>>],
     [processor_perm_row_weight |-> <<5, 7, 11>>,
      ip_processor_weight |-> <<3, 2, 1>>, ci_processor_weight |-> <<4, 0, 9>>,
      nia_processor_weight |-> <<QUOTIENT - 1, 1, 6>>,
      program_eval_row_weight |-> <<0, 2, 0>>,
      address_weight |-> <<8, 1, 1>>, instruction_weight |-> <<2, QUOTIENT - 2, 0>>,
      next_instruction_weight |-> <<1, 3, 5>>]}

\* InstructionTableEndpoints
InstructionTableEndpoints ==
    {[processor_perm_product |-> <<1, 0, 0>>, program_eval_sum |-> <<0, 0, 0>>],
     [processor_perm_product |-> <<2, 1, 0>>, program_eval_sum |-> <<3, 0, 1>>]}

\* no row is taken for a duplicate of the row before it
never_duplicate_row(previous_row, row) == FALSE

\* is_duplicate_row: there is a previous row and it has the address of row
is_duplicate_row(previous_row, row) ==
    IF previous_row.some
    THEN previous_row.val[Address + 1] = row[Address + 1]
    ELSE FALSE

\* the debug_assert_eq! of a duplicate row fail (they are compiled in when
\* debug_assertions is on)
duplicate_row_asserts_fail(previous_row, row, debug_assertions) ==
    /\ debug_assertions
    /\ is_duplicate_row(previous_row, row)
    /\ \/ previous_row.val[CI + 1] # row[CI + 1]
       \/ previous_row.val[NIA + 1] # row[NIA + 1]

\* one turn of the for loop of extend on the locals st
extend_row(st, row, challenges) ==
    LET duplicate == is_duplicate_row(st.previous_row, row)
        ip == lift(row[Address + 1])
        ci == lift(row[CI + 1])
        nia == lift(row[NIA + 1])
        compressed_row_for_permutation_argument ==
            xfe_add(xfe_add(xfe_mul(ip, challenges.ip_processor_weight),
                            xfe_mul(ci, challenges.ci_processor_weight)),
                    xfe_mul(nia, challenges.nia_processor_weight))
        compressed_row_for_evaluation_argument ==
            xfe_add(xfe_add(xfe_mul(ip, challenges.address_weight),
                            xfe_mul(ci, challenges.instruction_weight)),
                    xfe_mul(nia, challenges.next_instruction_weight))
        extension_row ==
            [k \in 1..Len(row) |-> lift(row[k])]
                \o <<compressed_row_for_permutation_argument,
                     st.processor_table_running_product,
                     compressed_row_for_evaluation_argument,
                     st.program_table_running_sum>>
    IN  [extension_matrix |-> Append(st.extension_matrix, extension_row),
         processor_table_running_product |->
            IF duplicate
            THEN xfe_mul(st.processor_table_running_product,
                         xfe_sub(challenges.processor_perm_row_weight,
                                 compressed_row_for_permutation_argument))
            ELSE st.processor_table_running_product,
         program_table_running_sum |->
            IF ~duplicate
            THEN xfe_add(xfe_mul(st.program_table_running_sum,
                                 challenges.program_eval_row_weight),
                         compressed_row_for_evaluation_argument)
            ELSE st.program_table_running_sum,
         previous_row |-> Some(row),
         panicked |-> st.panicked]

\* the for loop of extend from row i on
RECURSIVE extend_rows(_, _, _, _, _)
extend_rows(st, data, i, challenges, debug_assertions) ==
    IF i > Len(data) THEN st
    ELSE IF duplicate_row_asserts_fail(st.previous_row, data[i], debug_assertions)
    THEN [st EXCEPT !.panicked = TRUE]
    ELSE extend_rows(extend_row(st, data[i], challenges), data, i + 1,
                     challenges, debug_assertions)

\* InstructionTable::extend: Panic, or the extension table's data and the terminals
extend(data, challenges, initials, debug_assertions) ==
    LET st == extend_rows([extension_matrix |-> << >>,
                           processor_table_running_product |-> initials.processor_perm_product,
                           program_table_running_sum |-> initials.program_eval_sum,
                           previous_row |-> None,
                           panicked |-> FALSE],
                          data, 1, challenges, debug_assertions)
    IN  IF st.panicked THEN Panic
        ELSE Ok([table |-> st.extension_matrix,
                 terminals |-> [processor_perm_product |-> st.processor_table_running_product,
                                program_eval_sum |-> st.program_table_running_sum]])

\* An instruction table, padded or not
InitExtend ==
    /\ InitMmr
    /\ StarkIdle
    /\ PureIdle
    /\ FriIdle
    /\ \E data \in SeqsUpTo(InstructionRows, MaxRows) :
          table = [kind |-> "InstructionTable", data |-> data]
    /\ table_call = [op |-> "none"]

\* self.extend(challenges, initials)
Extend(challenges, initials, debug_assertions) ==
    /\ table_call.op = "none"
    /\ table.kind = "InstructionTable"
    /\ table_call' = [op |-> "extend", challenges |-> challenges, initials |-> initials,
                      out |-> extend(table.data, challenges, initials, debug_assertions)]
    /\ UNCHANGED table
    /\ tableOthersIdle

NextExtend ==
    \E challenges \in InstructionTableChallenges, initials \in InstructionTableEndpoints,
       debug_assertions \in BOOLEAN :
        Extend(challenges, initials, debug_assertions)

SpecExtend == InitExtend /\ [][NextExtend]_vars

(***************************************************************************)
(* Properties of the STARK proof stream (checked under SpecStark).         *)
(***************************************************************************)

\* C1: in a run of Stark::prove followed by Stark::verify on the stream that
\* prove returned, the kinds the verifier asks for are, position by position,
\* the kinds the prover enqueued, and every Fiat-Shamir seed is taken by the
\* verifier after the same items as by the prover.  Stark::verify asks for the
\* padded height as its fourth item, where Stark::prove enqueued the
\* combination root, so this does not hold.
C1_DequeueOrderIsEnqueueOrder ==
    from_prove =>
        /\ \A i \in 1..Len(v_asked) :
              i <= Len(proof_stream) /\ v_asked[i] = proof_stream[i].kind
        /\ \A j \in 1..Len(v_seeds) : j <= Len(p_seeds) /\ v_seeds[j] = p_seeds[j]

(***************************************************************************)
(* Properties of the archival MMR and of appends (checked under SpecMmr).  *)
(***************************************************************************)

C3_MembershipProofVerifies ==
    last.op = "membership" => last.result

\* a leaf below a mountain of height two is proved and verified
C3_Witness ==
    /\ last.op = "membership"
    /\ Len(last.authentication_path) = 2
    /\ last.result

\* C10: verify_append accepts the peaks and roots before and after
\* archive_append(x) of an MMR with N >= 1 leaves, and rejects them when the
\* new peaks, the new root or the old root is replaced by a different value.
C10_VerifyAppend ==
    last.op = "verify_append" => (last.result <=> last.tamper = "none")

\* an honest append that merges mountains is accepted
C10_Witness ==
    /\ last.op = "verify_append"
    /\ last.tamper = "none"
    /\ last.merged
    /\ last.result

(***************************************************************************)
(* Properties of verify_batch_update (checked under SpecAcc).              *)
(***************************************************************************)

IsVerifyBatchUpdate == last.op = "verify_batch_update"

\* 0-based index of the mountain of the leaf of a membership proof
PeakIndexOf(mp) == leaf_index_to_mt_index_and_peak_index(mp.leaf_index, mmra.leaf_count)[2]

\* The mutation at position pos is the only one of the call in its mountain
AloneInMountain(muts, pos) ==
    \A j \in 1..Len(muts) : j # pos => PeakIndexOf(muts[j][2]) # PeakIndexOf(muts[pos][2])

\* C4: with pairwise distinct in-range leaf indices, membership proofs valid
\* before any mutation and any appended leaves, verify_batch_update returns
\* true on the peaks of the MMR built from the mutated and extended leaf list.
C4_HonestBatchUpdateAccepted ==
    (IsVerifyBatchUpdate /\ last.tamper = "none") => last.result

\* two mutations in one mountain and an appended leaf
C4_Witness ==
    /\ IsVerifyBatchUpdate
    /\ last.tamper = "none"
    /\ Len(last.leaf_mutations) = 2
    /\ PeakIndexOf(last.leaf_mutations[1][2]) = PeakIndexOf(last.leaf_mutations[2][2])
    /\ Len(last.appended_leafs) = 1
    /\ last.result

\* C5: verify_batch_update returns false when two mutations carry the same
\* leaf index or when a mutation's leaf index is >= leaf_count.
C5_DuplicateOrOutOfBoundsRejected ==
    IsVerifyBatchUpdate =>
        LET indices == [j \in 1..Len(last.leaf_mutations) |-> last.leaf_mutations[j][2].leaf_index]
        IN  (\/ \E i, j \in 1..Len(indices) : i # j /\ indices[i] = indices[j]
             \/ \E j \in 1..Len(indices) : indices[j] >= mmra.leaf_count)
            => ~last.result

\* a mutation of the leaf that the appends of the same call add
C5_Witness ==
    /\ IsVerifyBatchUpdate
    /\ last.tamper = "oob"
    /\ mmra.leaf_count >= 1
    /\ Len(last.appended_leafs) = 1
    /\ \E j \in 1..Len(last.leaf_mutations) :
          last.leaf_mutations[j][2].leaf_index = mmra.leaf_count
    /\ ~last.result

\* The membership proof at last.pos is not the valid proof of its leaf
ProofDiffers == last.leaf_mutations[last.pos][2] # last.honest[last.pos][2]

IsBatchMutate == last.op = "batch_mutate"

\* C7: the peaks after batch_mutate_leaf_and_update_mps are the peaks after
\* replacing the same leaves one at a time, which are the peaks of the MMR
\* built from the final leaf list, and leaf_count is unchanged.
C7_BatchEqualsOneAtATime ==
    IsBatchMutate =>
        /\ mmra.peaks = mutate_one_at_a_time(last.before, last.leafs_before, last.mutation_data).peaks
        /\ mmra.peaks = PeaksOf(leafs)
        /\ mmra.leaf_count = last.before.leaf_count

\* two mutations in one mountain that change the peaks
C7_Witness ==
    /\ IsBatchMutate
    /\ Len(last.mutation_data) = 2
    /\ PeakIndexOf(last.mutation_data[1][1]) = PeakIndexOf(last.mutation_data[2][1])
    /\ mmra.peaks # last.before.peaks

\* C8: after the call every membership proof passed in, of a mutated or of an
\* untouched leaf, verifies against the new peaks and leaf count with the
\* leaf's final value.
C8_UpdatedProofsVerify ==
    IsBatchMutate =>
        \A i \in 1..Len(last.membership_proofs) :
            mp_verify(last.membership_proofs[i], mmra.peaks, leafs[i], mmra.leaf_count)

\* the proof of an untouched leaf was changed by two mutations
C8_Witness ==
    /\ IsBatchMutate
    /\ Len(last.mutation_data) = 2
    /\ \E i \in 1..Len(leafs) :
          /\ \A j \in 1..2 : last.mutation_data[j][1].leaf_index # i - 1
          /\ last.membership_proofs[i] # last.proofs_before[i]
          /\ mp_verify(last.membership_proofs[i], mmra.peaks, leafs[i], mmra.leaf_count)

\* C9: the returned list is strictly increasing, and it contains i exactly
\* when a digest of the authentication path of membership_proofs[i] changed.
C9_ModifiedIndices ==
    IsBatchMutate =>
        /\ \A k \in 1..(Len(last.modified) - 1) : last.modified[k] < last.modified[k + 1]
        /\ \A i \in 1..Len(last.membership_proofs) :
              (\E k \in 1..Len(last.modified) : last.modified[k] = i - 1)
              <=> (last.membership_proofs[i].authentication_path
                      # last.proofs_before[i].authentication_path)

\* two mutations after which some proofs are listed and some are not
C9_Witness ==
    /\ IsBatchMutate
    /\ Len(last.mutation_data) = 2
    /\ last.modified # << >>
    /\ Len(last.modified) < Len(last.membership_proofs)

\* the leaf indices of the mutations are pairwise distinct
DistinctLeafIndices(proofs) ==
    \A i, j \in 1..Len(proofs) : i # j => proofs[i].leaf_index # proofs[j].leaf_index

\* every membership proof of the leaf mutations verifies against the
\* accumulator as it is before the call
ProofsAreValid ==
    \A j \in 1..Len(last.leaf_mutations) :
        LET mp == last.leaf_mutations[j][2] IN
        /\ mp.leaf_index < Len(leafs)
        /\ mp_verify(mp, mmra.peaks, leafs[mp.leaf_index + 1], mmra.leaf_count)

\* every permutation of mutation_data gives batch_mutate_leaf_and_update_mps
\* the same peaks, the same updated membership proofs and the same index list
BatchMutateOrderIndependent ==
    (IsBatchMutate /\ DistinctLeafIndices([j \in 1..Len(last.mutation_data) |->
                                               last.mutation_data[j][1]])) =>
        \A other \in last.reordered :
            /\ other.ok
            /\ other.acc = mmra
            /\ other.membership_proofs = last.membership_proofs
            /\ other.modified = last.modified

\* verify_batch_update was called on leaf mutations with distinct leaf indices
VerifiedDistinct ==
    /\ last.op = "verify_batch_update"
    /\ DistinctLeafIndices([j \in 1..Len(last.leaf_mutations) |-> last.leaf_mutations[j][2]])

LeafsAtNode(n) == {i \in 0..n : data_index_to_node_index(i) = n}

\* C11: node_index_to_data_index inverts data_index_to_node_index: for every
\* data index i, node_index_to_data_index(data_index_to_node_index(i)) is
\* Some(i); and for a node index n >= 1 it is Some(i) when n is the node of
\* the leaf i and None when n is the node of no leaf.
C11_NodeIndexInvertsDataIndex ==
    /\ fn_ret.op = "round_trip" => fn_ret.out = Some(fn_arg)
    /\ fn_ret.op = "node_index_to_data_index" =>
          IF LeafsAtNode(fn_arg) = {}
          THEN fn_ret.out = None
          ELSE \E i \in LeafsAtNode(fn_arg) : fn_ret.out = Some(i)

\* a round trip through a leaf that is a left child below the top of its mountain
C11_Witness ==
    /\ fn_ret.op = "round_trip"
    /\ fn_arg >= 8
    /\ fn_arg % 2 = 0
    /\ fn_ret.out = Some(fn_arg)

(***************************************************************************)
(* Properties of the archival MMR on its own (checked under SpecArchival). *)
(***************************************************************************)

\* The positions of the set bits of n
SetBits(n) == {k \in 0..log_2_floor(n) : (n \div Pow2(k)) % 2 = 1}

PopCount(n) == Cardinality(SetBits(n))

\* C12: after N >= 1 appends to an archival MMR, count_leaves() is N,
\* count_nodes() is 2N - popcount(N), and get_peaks_with_heights() returns
\* popcount(N) peaks whose heights strictly decrease and are the positions of
\* the set bits of N.
C12_CountsAndPeakHeights ==
    Len(leafs) >= 1 =>
        LET N == Len(leafs)
            ph == get_peaks_with_heights(digests)
        IN  /\ count_leaves(digests) = N
            /\ count_nodes(digests) = 2 * N - PopCount(N)
            /\ Len(ph) = PopCount(N)
            /\ \A i \in 1..(Len(ph) - 1) : ph[i][2] > ph[i + 1][2]
            /\ {ph[i][2] : i \in 1..Len(ph)} = SetBits(N)

\* seven leaves: three mountains, of heights 2, 1 and 0
C12_Witness ==
    /\ Len(leafs) = 7
    /\ Len(get_peaks_with_heights(digests)) = 3
    /\ count_nodes(digests) = 11

MountainHeight(data_index) == Len(prove_membership(digests, data_index)[1])

\* C29: assuming a collision-free hash, verify_membership returns true only
\* if value_hash is the leaf at position data_index of the MMR whose bagged
\* peaks give root: a digest is not accepted under a data index other than
\* its own, and an authentication path whose length differs from the height
\* of the mountain that contains leaf data_index is rejected.
C29_MembershipOnlyOfOwnLeaf ==
    (last.op = "verify_membership" /\ last.result) =>
        /\ last.value_hash = leafs[last.data_index + 1]
        /\ Len(last.authentication_path) = MountainHeight(last.data_index)

\* what the code does keep: a path of the length of the mountain's height is
\* accepted only with the leaf at the data index
MembershipOfOwnLeafAtFullLength ==
    (/\ last.op = "verify_membership"
     /\ last.result
     /\ Len(last.authentication_path) = MountainHeight(last.data_index))
    => last.value_hash = leafs[last.data_index + 1]

(***************************************************************************)
(* Table padding (checked under SpecPad).                                  *)
(***************************************************************************)

PadRunning == table_call.op = "pad" /\ table_call.pc = "while"
PadReturned == table_call.op = "pad" /\ table_call.pc = "done"

\* the rows pad has added so far
PadAdded == Len(table.data) - Len(table_call.before)

\* while pad runs and after it, the original rows are an unchanged prefix and
\* the added rows are as the table's policy says
PadRowsAsPolicy ==
    table_call.op = "pad" =>
        /\ PadAdded >= 0
        /\ SubSeq(table.data, 1, Len(table_call.before)) = table_call.before
        /\ \A k \in 1..PadAdded :
              LET row == table.data[Len(table_call.before) + k]
                  original == table_call.before[Len(table_call.before)]
              IN  IF table.kind = "InstructionTable"
                  THEN /\ Len(row) = Len(original)
                       /\ \A col \in 1..Len(row) :
                             row[col] = IF col = Address + 1
                                        THEN (original[col] + k) % QUOTIENT
                                        ELSE original[col]
                  ELSE /\ Len(row) = HashTable_BASE_WIDTH
                       /\ \A col \in 1..Len(row) : row[col] = 0

\* C24 as stated: after pad() on an InstructionTable or a HashTable the number
\* of rows is a power of two that is >= the number of rows before padding, pad
\* terminates, and the original rows are an unchanged prefix; the k-th added
\* instruction-table row is the last original row with its address column
\* increased by k, and every added hash-table row is all zero with BASE_WIDTH
\* entries.
C24_PadToPowerOfTwo ==
    /\ [](PadReturned => \E e \in 0..MaxRows : Len(table.data) = Pow2(e))
    /\ []PadRowsAsPolicy
    /\ (PadRunning ~> PadReturned)

\* C24, amended: the same for a table that has at least one row; a table
\* without rows is left without rows.
C24_PadNonEmptyToPowerOfTwo ==
    /\ [](PadReturned =>
            IF table_call.before = << >>
            THEN table.data = << >>
            ELSE \E e \in 0..MaxRows : Len(table.data) = Pow2(e))
    /\ []PadRowsAsPolicy
    /\ (PadRunning ~> PadReturned)

\* pad has returned from an instruction table of five rows, the last row
\* with the largest address of the field: three rows were added, the first
\* with address 0
C24_Witness ==
    /\ PadReturned
    /\ table.kind = "InstructionTable"
    /\ Len(table_call.before) = 5
    /\ table_call.before[5][Address + 1] = QUOTIENT - 1
    /\ Len(table.data) = 8
    /\ table.data[6][Address + 1] = 0
    /\ table.data[8][Address + 1] = 2

(***************************************************************************)
(* The weights of the nonlinear combination (checked under SpecWeights).   *)
(***************************************************************************)

\* C23: Stark::sample_weights(hasher, seed, count) returns exactly count
\* extension-field elements for every count that prove and verify request,
\* including the odd weights_count = 1 + 2 * (number of base, extension and
\* quotient polynomials); so every weights[weights_counter] access of the
\* prover is in range and the verifier's check that weights and terms have
\* the same length holds.
C23_SampleWeightsReturnsCount ==
    /\ fn_ret.op = "sample_weights" => Len(fn_ret.out) = fn_ret.count
    /\ fn_ret.op \in {"prove", "verify"} => ~fn_ret.out.panic

\* what the code does keep: for an even count the weights are count in number
SampleWeightsReturnsEvenCount ==
    (fn_ret.op = "sample_weights" /\ fn_ret.count % 2 = 0) => Len(fn_ret.out) = fn_ret.count

\* what the code does: for an odd count it returns count - 1 weights, the
\* prover's last access is out of range and the verifier's assertion fails
OddCountIsOneShort ==
    /\ (fn_ret.op = "sample_weights" /\ fn_ret.count % 2 = 1) => Len(fn_ret.out) = fn_ret.count - 1
    /\ fn_ret.op \in {"prove", "verify"} => fn_ret.out.panic

(***************************************************************************)
(* Failures of Stark::verify (checked under SpecRevealed).                 *)
(***************************************************************************)

\* the proof fails one of the four checks
VerificationFails ==
    \/ ~fn_arg.proof.mt_base_success
    \/ ~fn_arg.proof.mt_extension_success
    \/ ~fn_arg.proof.mt_combination_success
    \/ fn_arg.proof.combination_differs_at # 0

\* C21: Stark::verify reports every verification failure as a returned
\* error: when the base, extension or combination Merkle authentication paths
\* do not verify, or when a revealed combination element differs from the
\* recomputed weighted sum of terms, verify returns an Err value (it neither
\* panics nor aborts) and it never returns Ok(true) for such a proof.
C21_FailureIsReturnedErr ==
    (fn_ret.op = "verify" /\ VerificationFails) => fn_ret.out.kind = "Err"

\* what the code does keep: such a proof is never accepted
FailedProofIsNotAccepted ==
    (fn_ret.op = "verify" /\ VerificationFails) => fn_ret.out.kind # "Ok"

\* what the code does: each of the four failures ends the call in a panic
FailureIsPanic ==
    (fn_ret.op = "verify" /\ VerificationFails) => fn_ret.out.kind = "Panic"

(***************************************************************************)
(* InstructionTable::extend (checked under SpecExtend).                    *)
(***************************************************************************)

\* row i of the table has the address of the row before it
SameAddressAsBefore(i) ==
    i > 1 /\ table.data[i - 1][Address + 1] = table.data[i][Address + 1]

\* the accumulator that column col records, as it is after row i: what the
\* next row records, or the terminal after the last row
AccumulatorAfter(i, col, terminal) ==
    IF i = Len(table.data) THEN terminal ELSE table_call.out.val.table[i + 1][col]

\* C30: in InstructionTable::extend, for every row exactly one of the two
\* running accumulators is updated: the permutation running product if and
\* only if the row's address equals the previous row's address, the evaluation
\* running sum otherwise (always for the first row); every extension row has
\* FULL_WIDTH = 7 entries and records both accumulators as they were before
\* that row's update, and the returned terminals are the accumulators after
\* the last row (equal to the initials for an empty table).
C30_ExtendUpdatesOneAccumulator ==
    table_call.op = "extend" =>
        /\ ~table_call.out.panic
        /\ LET ext == table_call.out.val.table
               terminals == table_call.out.val.terminals
               challenges == table_call.challenges
               n == Len(table.data)
           IN  /\ Len(ext) = n
               /\ n = 0 => terminals = table_call.initials
               /\ n > 0 => /\ ext[1][5] = table_call.initials.processor_perm_product
                           /\ ext[1][7] = table_call.initials.program_eval_sum
               /\ \A i \in 1..n :
                     LET product_after == AccumulatorAfter(i, 5, terminals.processor_perm_product)
                         sum_after == AccumulatorAfter(i, 7, terminals.program_eval_sum)
                     IN  /\ Len(ext[i]) = InstructionTable_FULL_WIDTH
                         /\ \A col \in 1..InstructionTable_BASE_WIDTH :
                               ext[i][col] = <<table.data[i][col], 0, 0>>
                         /\ IF SameAddressAsBefore(i)
                            THEN /\ product_after =
                                      xfe_mul(ext[i][5],
                                              xfe_sub(challenges.processor_perm_row_weight, ext[i][4]))
                                 /\ sum_after = ext[i][7]
                            ELSE /\ product_after = ext[i][5]
                                 /\ sum_after =
                                      xfe_add(xfe_mul(ext[i][7], challenges.program_eval_row_weight),
                                              ext[i][6])

\* extend has returned from a table of five rows, the second and the fourth
\* with the address of the row before them: the product has changed twice
\* and stood still three times, the sum the other way round
C30_Witness ==
    /\ table_call.op = "extend"
    /\ ~table_call.out.panic
    /\ Len(table.data) = 5
    /\ SameAddressAsBefore(2) /\ ~SameAddressAsBefore(3)
    /\ SameAddressAsBefore(4) /\ ~SameAddressAsBefore(5)
    /\ LET ext == table_call.out.val.table
           terminals == table_call.out.val.terminals
       IN  /\ ext[1][5] = ext[2][5] /\ ext[2][5] # ext[3][5] /\ ext[3][5] = ext[4][5]
           /\ ext[4][5] # ext[5][5] /\ ext[5][5] = terminals.processor_perm_product
           /\ ext[1][7] # ext[2][7] /\ ext[2][7] = ext[3][7] /\ ext[3][7] # ext[4][7]
           /\ ext[4][7] = ext[5][7] /\ ext[5][7] # terminals.program_eval_sum

(***************************************************************************)
(* Termination of get_peaks_with_heights (checked under SpecPeaks).        *)
(***************************************************************************)

\* the call of get_peaks_with_heights is running
PeaksRunning == last.op = "get_peaks_with_heights" /\ last.pc # "done"

\* the call has returned what get_peaks_with_heights computes
PeaksReturned ==
    /\ last.op = "get_peaks_with_heights"
    /\ last.pc = "done"
    /\ last.peaks_and_heights = get_peaks_with_heights(digests)

\* C27: on every archival MMR reachable from init by one or more
\* archive_append calls get_peaks_with_heights terminates: whenever the outer
\* loop is entered with height > 0 the candidate node index is strictly
\* greater than digests.len(), each outer iteration lowers height, and a
\* call that has started returns.
C27_GetPeaksTerminates ==
    /\ [](last.op = "get_peaks_with_heights" =>
            /\ (last.pc = "outer" /\ last.height > 0) => last.candidate > Len(digests)
            /\ last.lowered)
    /\ (PeaksRunning ~> PeaksReturned)

\* a call on seven leaves that entered the outer loop twice, last at height
\* 1, and returned three peaks
C27_Witness ==
    /\ PeaksReturned
    /\ Len(leafs) = 7
    /\ last.entered = 1
    /\ last.height = 0
    /\ Len(last.peaks_and_heights) = 3

(***************************************************************************)
(* Properties of Fri::num_rounds (checked under SpecRounds).               *)
(***************************************************************************)

\* d of the claim: 0 when c <= e, and the ceiling of log2(c / e) when c > e
DroppedRounds(c, e) ==
    IF c <= e THEN 0
    ELSE CHOOSE k \in 1..(log_2_floor(c) + 1) : e * Pow2(k) >= c /\ e * Pow2(k - 1) < c

\* the pair (log2(L / e) - d, 2^d - 1)
StatedRounds(f) ==
    LET d == DroppedRounds(f.colinearity_checks_count, f.expansion_factor) IN
    <<log_2_floor(f.domain_length \div f.expansion_factor) - d, Pow2(d) - 1>>

\* C15 as stated: for powers of two L >= e and every c, num_rounds() returns
\* (log2(L / e) - d, 2^d - 1).  With c > L the first component would be
\* negative, and the u8 subtraction panics or wraps.
C15_NumRoundsForEveryCount ==
    fn_ret.op = "num_rounds" => fn_ret.out = Ok(StatedRounds(fn_arg))

\* C15, amended: for powers of two L >= e and c <= L, num_rounds() returns
\* (log2(L / e) - d, 2^d - 1), with d = 0 when c <= e and d the ceiling of
\* log2(c / e) when c > e.
C15_NumRounds ==
    (fn_ret.op = "num_rounds" /\ fn_arg.colinearity_checks_count <= fn_arg.domain_length)
        => fn_ret.out = Ok(StatedRounds(fn_arg))

\* the example (1048576, 8, 65) -> (13, 15)
C15_Witness ==
    /\ fn_ret.op = "num_rounds"
    /\ fn_arg.domain_length = 1048576
    /\ fn_arg.expansion_factor = 8
    /\ fn_arg.colinearity_checks_count = 65
    /\ fn_ret.out = Ok(<<13, 15>>)

\* C26: for powers of two L >= e >= 1 and 1 <= c <= L, num_rounds() does not
\* underflow its round counter and the last codeword length L >> rounds is
\* >= c, so the assertion at the start of sample_indices does not fail; for
\* c > L the subtraction in num_rounds underflows: it panics in a build with
\* overflow checks and wraps to more rounds than log2(L / e) in one without.
C26_NoUnderflowUpToLength ==
    LET L == fn_arg.domain_length
        e == fn_arg.expansion_factor
        c == fn_arg.colinearity_checks_count
    IN  /\ (fn_ret.op = "num_rounds" /\ c <= L) =>
              /\ ~fn_ret.out.panic
              /\ fn_ret.out.val[1] <= log_2_floor(L \div e)
              /\ L \div Pow2(fn_ret.out.val[1]) >= c
        /\ (fn_ret.op = "sample_indices" /\ c <= L) =>
              /\ ~fn_ret.out.panic
              /\ fn_ret.out.val >= c
        /\ (fn_ret.op = "num_rounds" /\ c > L) =>
              IF fn_arg.overflow_checks THEN fn_ret.out.panic
              ELSE /\ ~fn_ret.out.panic
                   /\ fn_ret.out.val[1] > log_2_floor(L \div e)

\* sample_indices passed its assertion with rounds dropped and c = L
C26_Witness ==
    /\ fn_ret.op = "sample_indices"
    /\ fn_arg.colinearity_checks_count = fn_arg.domain_length
    /\ fn_arg.expansion_factor < fn_arg.colinearity_checks_count
    /\ fn_arg.colinearity_checks_count = 64
    /\ fn_ret.out = Ok(64)

(***************************************************************************)
(* Properties of Fri::sample_indices (checked under SpecSample).           *)
(***************************************************************************)

\* C25: for any seed, sample_indices returns exactly colinearity_checks_count
\* indices; when num_rounds >= 1 each index is < domain_length / 2; and the
\* indices are pairwise distinct modulo the last codeword length
\* domain_length >> num_rounds, hence pairwise distinct in every round after
\* folding (modulo domain_length >> (r + 1) for every round r).
C25_SampledIndices ==
    fn_ret.op = "sample_indices" =>
        LET indices == fn_ret.out
            L == fn_arg.domain_length
            rounds == fri_num_rounds(fn_arg)[1]
            last_codeword_length == L \div Pow2(rounds)
        IN  /\ Len(indices) = fn_arg.colinearity_checks_count
            /\ \A k \in 1..Len(indices) : indices[k] >= 0 /\ indices[k] < L
            /\ rounds >= 1 => \A k \in 1..Len(indices) : indices[k] < L \div 2
            /\ \A j, k \in 1..Len(indices) :
                  j # k => indices[j] % last_codeword_length # indices[k] % last_codeword_length
            /\ \A r \in 0..(rounds - 1) : \A j, k \in 1..Len(indices) :
                  j # k => indices[j] % (L \div Pow2(r + 1)) # indices[k] % (L \div Pow2(r + 1))

\* three indices over two rounds, the first one lifted to the highest index
\* that can be reached, and the three not in increasing order
C25_Witness ==
    /\ fn_ret.op = "sample_indices"
    /\ fn_arg.domain_length = 16
    /\ fri_num_rounds(fn_arg)[1] = 2
    /\ Len(fn_ret.out) = 3
    /\ fn_ret.out[1] = 7
    /\ fn_ret.out[2] < fn_ret.out[3]
    /\ fn_ret.out[3] < fn_ret.out[1]

(***************************************************************************)
(* Properties of BFieldElement (checked under SpecField and SpecRoot).     *)
(***************************************************************************)

\* a failed call carrying an InstructionError
Err(e) == [panic |-> FALSE, err |-> e]

\* a^e modulo QUOTIENT, from the power with half the exponent
RECURSIVE PowerMod(_, _)
PowerMod(a, e) ==
    IF e = 0 THEN 1
    ELSE LET h == PowerMod(a, e \div 2) IN
         IF e % 2 = 0 THEN (h * h) % QUOTIENT ELSE (((h * h) % QUOTIENT) * a) % QUOTIENT

\* C16: every BFieldElement returned by new, addition, subtraction,
\* multiplication, division, negation, inv and mod_pow stores a value v with
\* 0 <= v < p, and the negation of zero is zero.  Neg stores QUOTIENT - self.0,
\* which is QUOTIENT for zero, so this does not hold.
C16_ResultsAreCanonical ==
    /\ (fn_ret.op \in {"new", "add", "sub", "mul", "div", "neg", "inv", "mod_pow"}
            /\ ~fn_ret.out.panic)
          => fn_ret.out.val \in 0..(QUOTIENT - 1)
    /\ (fn_ret.op = "neg" /\ Self = 0) => fn_ret.out = Ok(0)

\* C17: for every nonzero a, a * a.inv() is one and a / a is one, and eea on
\* the unsigned wide integers (p, a) runs without a subtraction or a
\* multiplication leaving the range of the type.  The first round of eea
\* computes 0 - quotient * 1, which leaves the range, so this does not hold.
C17_InverseTimesSelfIsOne ==
    /\ (fn_ret.op = "inv" /\ Self # 0) =>
          /\ ~fn_ret.out.panic
          /\ mul(Self, fn_ret.out.val) = 1
          /\ ~eea(QUOTIENT, Self, TRUE).panic
    /\ (fn_ret.op = "div_self" /\ Self # 0) => fn_ret.out = Ok(1)

\* C18: the inverse of zero fails with InverseOfZero and returns no field
\* element.  inv returns the element zero, so this does not hold.
C18_InverseOfZeroFails ==
    (fn_ret.op = "inv" /\ Self = 0) => fn_ret.out = Err("InverseOfZero")

\* C19: a.mod_pow(e) returns a^e mod p for every a and every exponent e of
\* the unsigned type, with a^0 = 1 also for a = 0, and no shift of the loop is
\* out of range.  The loop runs over the bits of the wide type and shifts the
\* narrow one, so this does not hold.
C19_ModPowIsPower ==
    fn_ret.op = "mod_pow" =>
        /\ fn_ret.out = Ok(PowerMod(Self, fn_arg.pow))
        /\ ~mod_pow(Self, fn_arg.pow, TRUE).panic

\* g has order exactly n
HasOrder(g, n) ==
    /\ PowerMod(g, n) = 1
    /\ \A q \in 2..n : (IsListedPrime(q) /\ n % q = 0) => PowerMod(g, n \div q) # 1

\* C20: for every n >= 1, get_primitive_root_of_unity(n) returns Some(g)
\* exactly when n divides p - 1, and then g has order exactly n.  In a build
\* with overflow checks the call panics for every n > 1 dividing p - 1, so
\* this does not hold.
C20_PrimitiveRootOfUnity ==
    (fn_ret.op = "get_primitive_root_of_unity" /\ fn_arg.n >= 1) =>
        /\ ~fn_ret.out.panic
        /\ fn_ret.out.val.some <=> (QUOTIENT - 1) % fn_arg.n = 0
        /\ fn_ret.out.val.some => HasOrder(fn_ret.out.val.val, fn_arg.n)

(***************************************************************************)
(* Properties of Fri::prove followed by Fri::verify (checked under         *)
(* SpecFri).                                                               *)
(***************************************************************************)

\* The first count items of the stream, when they are count Merkle roots
FirstRoots(count) ==
    IF count <= Len(fri_stream) /\ \A k \in 1..count : fri_stream[k].kind = "root"
    THEN SubSeq(fri_stream, 1, count)
    ELSE <<"none">>

\* The stream up to the last codeword: the roots and the codeword, no opening
UpToLastCodeword ==
    IF FriRounds + 2 <= Len(fri_stream) /\ fri_stream[FriRounds + 2].kind = "codeword"
    THEN FirstRoots(FriRounds + 1) \o <<fri_stream[FriRounds + 2]>>
    ELSE <<"none">>

\* C13: in Fri::prove followed by Fri::verify on the same stream, the
\* verifier derives the challenge of round r from the same prefix as the
\* prover, which is the first r + 1 Merkle roots; both derive the index seed
\* from the stream up to the last codeword, before any opening; the alphas and
\* the top-level indices are the same on both sides; and in every round the
\* indices the verifier folds, top-level index mod L >> (r + 1), are the
\* indices the prover opened.
C13_SameSeedsAndIndices ==
    fri_verifier.pc # "none" =>
        /\ \A r \in 1..Len(fri_prover.alpha_seeds) :
              fri_prover.alpha_seeds[r] = FirstRoots(r)
        /\ \A r \in 1..Len(fri_verifier.alpha_seeds) :
              /\ fri_verifier.alpha_seeds[r] = fri_prover.alpha_seeds[r]
              /\ fri_verifier.alphas[r] = fri_prover.alphas[r]
        /\ fri_prover.pc \in {"query", "done"} => fri_prover.index_seed = UpToLastCodeword
        /\ fri_verifier.pc \in {"query", "done"} /\ fri_verifier.result \in {"none", "Ok"} =>
              /\ fri_verifier.index_seed = fri_prover.index_seed
              /\ fri_verifier.top_level_indices = fri_prover.top_level_indices
        /\ \A r \in 1..Len(fri_verifier.folded) :
              /\ fri_verifier.folded[r] = fri_prover.opened[r]
              /\ \A k \in 1..fri.object.colinearity_checks_count :
                    fri_verifier.folded[r].c_indices[k] =
                        fri_verifier.top_level_indices[k]
                            % (fri.object.domain_length \div Pow2(r))

\* verify has checked two rounds, the second with an index that folding changed
C13_Witness ==
    /\ fri_verifier.pc = "done"
    /\ Len(fri_verifier.folded) = 2
    /\ Len(fri_verifier.alpha_seeds) = 2
    /\ \E k \in 1..Len(fri_verifier.top_level_indices) :
          fri_verifier.folded[2].c_indices[k] # fri_verifier.top_level_indices[k]

\* the monomial X^degree as a coefficient list of the given length
Monomial(degree, length) == [k \in 1..length |-> IF k = degree + 1 THEN 1 ELSE 0]

====
